---------------------------- MODULE Spec2Model ----------------------------
(***************************************************************************)
(* A model of rsexp: the Sexp tree, the escape policy, the three writers   *)
(* (plain, machine, human) of src/src/lib.rs and the nom-based parser of   *)
(* src/src/parse.rs.  Bytes are the integers 0..255, byte strings are      *)
(* sequences of bytes (1-based here, 0-based in the source).               *)
(***************************************************************************)
EXTENDS Integers, Sequences, FiniteSets, TLC

VARIABLES
    sexp,             \* the tree handed to a writer
    buffer,           \* the byte buffer: filled by a writer, read by a parser
    writer,           \* which writer filled buffer ("none" for raw input)
    sexps,            \* the slice of trees given to write_multi / extract_map
    hum_log,          \* history of write_hum's emissions (tokens, separators)
    mach_log,         \* history of write_mach's emissions
    result,           \* outcome of the last parser entry point / query
    rebuffer,         \* bytes written when the parsed tree is emitted again
    overflow_checks,  \* build profile: TRUE = debug (overflow panics)
    pc                \* the last operation performed

vars == <<sexp, sexps, buffer, writer, hum_log, mach_log, result, rebuffer,
          overflow_checks, pc>>

---------------------------------------------------------------------------
(* Bounds of the model. *)
MaxNodes == 4         \* nodes (atoms and lists) of a tree given to a writer
MaxAtomLen == 3       \* length of the byte strings given to the escape policy
MaxInputLen == 5      \* length of the raw inputs given to the parser
HumMaxNodes == 4      \* nodes of the wide trees given to write_hum
MaxTailLen == 3       \* bytes that follow an escape inside a quoted atom
MaxRunInputLen == 4   \* bytes of the inputs with unquoted runs and markers
MaxWsInputLen == 4    \* bytes of the inputs that blanks and comments are inserted into
MaxMapLen == 3        \* elements of the slices given to extract_map
MaxPrintNodes == 3    \* nodes of the trees whose written bytes are classified
MaxStepInputLen == 3  \* bytes of the inputs whose loops are followed step by step

---------------------------------------------------------------------------
(* Byte values used by the source as literals. *)
DQUOTE == 34
HASH == 35
LPAREN == 40
RPAREN == 41
SEMI == 59
BACKSLASH == 92
PIPE == 124
SPACE == 32
TAB == 9
LF == 10
CR == 13
BS == 8
SQUOTE == 39

MAX_LINE_WIDTH == 90

Byte == 0..255

\* enum Sexp { Atom(Vec<u8>), List(Vec<Sexp>) }
\* (the two variants are records with different fields)
Atom(v) == [atom |-> v]
List(l) == [list |-> l]
IsAtom(s) == DOMAIN s = {"atom"}

---------------------------------------------------------------------------
(* Escape policy: src/src/lib.rs *)

\* input[index] of the source (0-based) on a 1-based sequence
at(input, index) == input[index + 1]

\* the least element of a non-empty set of indices
Least(S) == CHOOSE i \in S : \A j \in S : i <= j

\* a faulty variant of the arms: the arm for # after | is missing
must_escape_at_no_pipe_hash(d, index) ==
    LET c == at(d, index) IN
    \/ c \in (0..32) \cup (127..255) \cup {DQUOTE, LPAREN, RPAREN, SEMI, BACKSLASH}
    \/ c = PIPE /\ index > 0 /\ at(d, index - 1) = HASH

\* lines 55-60: the arms of the match that return true at index
must_escape_at(d, index) ==
    LET c == at(d, index) IN
    \/ c \in (0..32) \cup (127..255) \cup {DQUOTE, LPAREN, RPAREN, SEMI, BACKSLASH}
    \/ c = PIPE /\ index > 0 /\ at(d, index - 1) = HASH
    \/ c = HASH /\ index > 0 /\ at(d, index - 1) = PIPE

\* the loop returns true at the first index whose arm returns, false when
\* it runs off the end
must_escape(d) ==
    IF Len(d) = 0 THEN TRUE
    ELSE \E index \in 0..(Len(d) - 1) : must_escape_at(d, index)

write_u8(b, w) == Append(w, b)

\* a faulty variant of the loop body: the decimal escape is not padded to
\* three digits
escape_byte_unpadded(c) ==
    IF c = BACKSLASH \/ c = DQUOTE THEN <<BACKSLASH, c>>
    ELSE IF c = LF THEN <<BACKSLASH, 110>>
    ELSE IF c = TAB THEN <<BACKSLASH, 116>>
    ELSE IF c = CR THEN <<BACKSLASH, 114>>
    ELSE IF c = BS THEN <<BACKSLASH, 98>>
    ELSE IF c \in 32..126 THEN <<c>>
    ELSE IF c >= 100
    THEN <<BACKSLASH, 48 + (c \div 100), 48 + ((c \div 10) % 10), 48 + (c % 10)>>
    ELSE IF c >= 10 THEN <<BACKSLASH, 48 + (c \div 10), 48 + (c % 10)>>
    ELSE <<BACKSLASH, 48 + c>>

\* a faulty variant of the loop body: a newline is written after a backslash
\* like \\ and ", not as \n
escape_byte_raw_newline(c) ==
    IF c = BACKSLASH \/ c = DQUOTE \/ c = LF THEN <<BACKSLASH, c>>
    ELSE IF c = TAB THEN <<BACKSLASH, 116>>
    ELSE IF c = CR THEN <<BACKSLASH, 114>>
    ELSE IF c = BS THEN <<BACKSLASH, 98>>
    ELSE IF c \in 32..126 THEN <<c>>
    ELSE <<BACKSLASH, 48 + (c \div 100), 48 + ((c \div 10) % 10), 48 + (c % 10)>>

\* a faulty variant of the loop body: the printable range reaches DEL
escape_byte_raw_del(c) ==
    IF c = BACKSLASH \/ c = DQUOTE THEN <<BACKSLASH, c>>
    ELSE IF c = LF THEN <<BACKSLASH, 110>>
    ELSE IF c = TAB THEN <<BACKSLASH, 116>>
    ELSE IF c = CR THEN <<BACKSLASH, 114>>
    ELSE IF c = BS THEN <<BACKSLASH, 98>>
    ELSE IF c \in 32..127 THEN <<c>>
    ELSE <<BACKSLASH, 48 + (c \div 100), 48 + ((c \div 10) % 10), 48 + (c % 10)>>

\* one iteration of write_escaped's loop: the bytes written for byte c
escape_byte(c) ==
    IF c = BACKSLASH \/ c = DQUOTE THEN <<BACKSLASH, c>>
    ELSE IF c = LF THEN <<BACKSLASH, 110>>
    ELSE IF c = TAB THEN <<BACKSLASH, 116>>
    ELSE IF c = CR THEN <<BACKSLASH, 114>>
    ELSE IF c = BS THEN <<BACKSLASH, 98>>
    ELSE IF c \in 32..126 THEN <<c>>
    ELSE <<BACKSLASH, 48 + (c \div 100), 48 + ((c \div 10) % 10), 48 + (c % 10)>>

\* the bytes the loop writes for d[lo..hi) (the range is split in halves
\* to keep the evaluation shallow; the bytes are written in index order)
RECURSIVE write_escaped_loop(_, _, _)
write_escaped_loop(d, lo, hi) ==
    IF lo >= hi THEN <<>>
    ELSE IF lo + 1 = hi THEN escape_byte(at(d, lo))
    ELSE LET mid == (lo + hi) \div 2
         IN write_escaped_loop(d, lo, mid) \o write_escaped_loop(d, mid, hi)

write_escaped(d, w) ==
    write_u8(DQUOTE, write_u8(DQUOTE, w) \o write_escaped_loop(d, 0, Len(d)))

---------------------------------------------------------------------------
(* Plain writer: Sexp::write, Sexp::write_multi *)

RECURSIVE write(_, _)
RECURSIVE write_elems(_, _, _)
\* a faulty variant of the loop over the elements: the space is written
\* after every element instead of between them
write_elems_space_after(vec, index, w) ==
    IF index >= Len(vec) THEN w
    ELSE write_elems(vec, index + 1, write_u8(SPACE, write(at(vec, index), w)))

\* a faulty variant of the loop over the elements: no space between them
write_elems_unseparated(vec, index, w) ==
    IF index >= Len(vec) THEN w
    ELSE write_elems(vec, index + 1, write(at(vec, index), w))

write_elems(vec, index, w) ==
    IF index >= Len(vec) THEN w
    ELSE write_elems(vec, index + 1,
             write(at(vec, index), IF index > 0 THEN write_u8(SPACE, w) ELSE w))

write(s, w) ==
    IF IsAtom(s)
    THEN IF must_escape(s.atom) THEN write_escaped(s.atom, w) ELSE w \o s.atom
    ELSE write_u8(RPAREN, write_elems(s.list, 0, write_u8(LPAREN, w)))

to_bytes(s) == write(s, <<>>)

RECURSIVE write_multi_loop(_, _, _)
\* a faulty variant of the loop: no space between the trees
write_multi_loop_unseparated(vec, index, w) ==
    IF index >= Len(vec) THEN w
    ELSE write_multi_loop(vec, index + 1, write(at(vec, index), w))

write_multi_loop(vec, index, w) ==
    IF index >= Len(vec) THEN w
    ELSE write_multi_loop(vec, index + 1,
             write(at(vec, index), IF index > 0 THEN write_u8(SPACE, w) ELSE w))

write_multi(vec, w) == write_multi_loop(vec, 0, w)

to_bytes_multi(vec) == write_multi(vec, <<>>)

---------------------------------------------------------------------------
(* Machine writer: Sexp::write_mach.  The state threaded through the walk  *)
(* is st = [w, log]: the sink and the history of what was emitted; every   *)
(* log entry records the token, the glue flag (need_whitespace) the next   *)
(* token will see, and the length of the sink after the token.             *)

MachEvent(tok, flag, w) == [tok |-> tok, flag |-> flag, len |-> Len(w)]

RECURSIVE write_mach_write_loop(_, _, _)
RECURSIVE write_mach_elems(_, _, _, _)
\* a faulty variant of the loop: the flag a child returns is dropped, so no
\* child ever sees the glue flag set
write_mach_elems_flag_dropped(vec, index, need_whitespace, st) ==
    IF index >= Len(vec) THEN [w |-> st.w, log |-> st.log, ret |-> need_whitespace]
    ELSE LET r == write_mach_write_loop(at(vec, index), need_whitespace, st)
         IN write_mach_elems(vec, index + 1, FALSE, [w |-> r.w, log |-> r.log])

\* a faulty variant of the loop: the glue flag is set after every child,
\* whatever the child returns
write_mach_elems_flag_set(vec, index, need_whitespace, st) ==
    IF index >= Len(vec) THEN [w |-> st.w, log |-> st.log, ret |-> need_whitespace]
    ELSE LET r == write_mach_write_loop(at(vec, index), need_whitespace, st)
         IN write_mach_elems(vec, index + 1, TRUE, [w |-> r.w, log |-> r.log])

\* for elem in vec.iter() { need_whitespace = write_loop(elem, need_whitespace, w)? }
write_mach_elems(vec, index, need_whitespace, st) ==
    IF index >= Len(vec) THEN [w |-> st.w, log |-> st.log, ret |-> need_whitespace]
    ELSE LET r == write_mach_write_loop(at(vec, index), need_whitespace, st)
         IN write_mach_elems(vec, index + 1, r.ret, [w |-> r.w, log |-> r.log])

write_mach_write_loop(s, need_whitespace, st) ==
    IF IsAtom(s)
    THEN IF must_escape(s.atom)
         THEN LET w1 == write_escaped(s.atom, st.w)
                  ret == FALSE
              IN [w |-> w1, ret |-> ret,
                  log |-> Append(st.log, MachEvent("quoted", ret, w1))]
         ELSE LET w1 == IF need_whitespace THEN write_u8(SPACE, st.w) ELSE st.w
                  log1 == IF need_whitespace
                          THEN Append(st.log, MachEvent("space", need_whitespace, w1))
                          ELSE st.log
                  w2 == w1 \o s.atom
                  ret == TRUE
              IN [w |-> w2, ret |-> ret,
                  log |-> Append(log1, MachEvent("unquoted", ret, w2))]
    ELSE LET w1 == write_u8(LPAREN, st.w)
             inner == FALSE     \* let mut need_whitespace = false
             r  == write_mach_elems(s.list, 0, inner,
                       [w |-> w1, log |-> Append(st.log, MachEvent("open", inner, w1))])
             w2 == write_u8(RPAREN, r.w)
             ret == FALSE
         IN [w |-> w2, ret |-> ret,
             log |-> Append(r.log, MachEvent("close", ret, w2))]

write_mach(s, w) == write_mach_write_loop(s, FALSE, [w |-> w, log |-> <<>>])

to_bytes_mach(s) == write_mach(s, <<>>).w

---------------------------------------------------------------------------
(* Human writer: Sexp::write_hum.  Pass 1 (escape) builds the tree of      *)
(* encoded atoms and cached sizes; pass 2 (write_loop) emits it.  The      *)
(* state threaded through pass 2 is st = [w, already_written_on_line, log];*)
(* log is the history of the emissions: for each one the kind, the size    *)
(* and indent level of the child being placed, the counter before and      *)
(* after, and the length of the sink after.                                *)

\* enum EscapedSexpWithSize { AtomRef(&[u8]), AtomOwned(Vec<u8>), List { total_size, values } }
AtomRef(a) == [tag |-> "AtomRef", atom |-> a]
AtomOwned(a) == [tag |-> "AtomOwned", atom |-> a]
ListWithSize(n, vs) == [tag |-> "List", total_size |-> n, values |-> vs]

size(s) ==
    IF s.tag = "AtomRef" THEN Len(s.atom)
    ELSE IF s.tag = "AtomOwned" THEN Len(s.atom)
    ELSE s.total_size

RECURSIVE escape(_)
RECURSIVE escape_elems(_, _, _, _)
RECURSIVE escape_elems_flat(_, _, _, _)
\* a faulty variant of the loop of escape: the sizes of the elements are
\* not added to the size of the list
escape_elems_flat(l, index, total_size, values) ==
    IF index >= Len(l) THEN ListWithSize(total_size, values)
    ELSE escape_elems_flat(l, index + 1, total_size, Append(values, escape(at(l, index))))

escape_elems(l, index, total_size, values) ==
    IF index >= Len(l) THEN ListWithSize(total_size, values)
    ELSE LET v == escape(at(l, index))
         IN escape_elems(l, index + 1, total_size + size(v), Append(values, v))

escape(s) ==
    IF IsAtom(s) /\ must_escape(s.atom) THEN AtomOwned(write_escaped(s.atom, <<>>))
    ELSE IF IsAtom(s) THEN AtomRef(s.atom)
    ELSE escape_elems(s.list, 0, 2 + Len(s.list), <<>>)

HumEvent(ev, s, indent_level, before, col, w) ==
    [ev |-> ev, size |-> size(s), indent |-> indent_level,
     before |-> before, col |-> col, len |-> Len(w)]

\* a faulty variant of the indentation: tabs are written
RECURSIVE write_indent_tabs(_, _, _)
write_indent_tabs(i, indent_level, w) ==
    IF i >= indent_level THEN w
    ELSE write_indent_tabs(i + 1, indent_level, write_u8(TAB, w))

\* for _i in 0..indent_level { write_u8(b' ', w)?; }
RECURSIVE write_indent(_, _, _)
write_indent(i, indent_level, w) ==
    IF i >= indent_level THEN w ELSE write_indent(i + 1, indent_level, write_u8(SPACE, w))

\* a faulty variant of the separator: the space branch counts the column
\* but writes nothing
write_hum_separator_no_space(s, first_elem, indent_level, st) ==
    LET col == st.already_written_on_line IN
    IF ~first_elem /\ size(s) + col > MAX_LINE_WIDTH
    THEN LET w1 == write_indent(0, indent_level, write_u8(LF, st.w))
         IN [w |-> w1, already_written_on_line |-> indent_level,
             log |-> Append(st.log,
                        HumEvent("newline", s, indent_level, col, indent_level, w1))]
    ELSE IF ~first_elem
    THEN LET w1 == st.w
         IN [w |-> w1, already_written_on_line |-> col + 1,
             log |-> Append(st.log, HumEvent("space", s, indent_level, col, col + 1, w1))]
    ELSE st

\* a faulty variant of the separator: the break test leaves out the column
write_hum_separator_no_column(s, first_elem, indent_level, st) ==
    LET col == st.already_written_on_line IN
    IF ~first_elem /\ size(s) > MAX_LINE_WIDTH
    THEN LET w1 == write_indent(0, indent_level, write_u8(LF, st.w))
         IN [w |-> w1, already_written_on_line |-> indent_level,
             log |-> Append(st.log,
                        HumEvent("newline", s, indent_level, col, indent_level, w1))]
    ELSE IF ~first_elem
    THEN LET w1 == write_u8(SPACE, st.w)
         IN [w |-> w1, already_written_on_line |-> col + 1,
             log |-> Append(st.log, HumEvent("space", s, indent_level, col, col + 1, w1))]
    ELSE st

\* a faulty variant of the separator: every child but the first begins a line
write_hum_separator_always_break(s, first_elem, indent_level, st) ==
    LET col == st.already_written_on_line IN
    IF ~first_elem
    THEN LET w1 == write_indent(0, indent_level, write_u8(LF, st.w))
         IN [w |-> w1, already_written_on_line |-> indent_level,
             log |-> Append(st.log,
                        HumEvent("newline", s, indent_level, col, indent_level, w1))]
    ELSE st

\* a faulty variant of the separator: after a newline the counter is 0
write_hum_separator_reset_zero(s, first_elem, indent_level, st) ==
    LET col == st.already_written_on_line IN
    IF ~first_elem /\ size(s) + col > MAX_LINE_WIDTH
    THEN LET w1 == write_indent(0, indent_level, write_u8(LF, st.w))
         IN [w |-> w1, already_written_on_line |-> 0,
             log |-> Append(st.log, HumEvent("newline", s, indent_level, col, 0, w1))]
    ELSE IF ~first_elem
    THEN LET w1 == write_u8(SPACE, st.w)
         IN [w |-> w1, already_written_on_line |-> col + 1,
             log |-> Append(st.log, HumEvent("space", s, indent_level, col, col + 1, w1))]
    ELSE st

\* lines 205-214: the separator written before s
write_hum_separator(s, first_elem, indent_level, st) ==
    LET col == st.already_written_on_line IN
    IF ~first_elem /\ size(s) + col > MAX_LINE_WIDTH
    THEN LET w1 == write_indent(0, indent_level, write_u8(LF, st.w))
         IN [w |-> w1, already_written_on_line |-> indent_level,
             log |-> Append(st.log,
                        HumEvent("newline", s, indent_level, col, indent_level, w1))]
    ELSE IF ~first_elem
    THEN LET w1 == write_u8(SPACE, st.w)
         IN [w |-> w1, already_written_on_line |-> col + 1,
             log |-> Append(st.log, HumEvent("space", s, indent_level, col, col + 1, w1))]
    ELSE st

RECURSIVE write_hum_write_loop(_, _, _, _)
RECURSIVE write_hum_elems(_, _, _, _)
write_hum_elems(values, index, indent_level, st) ==
    IF index >= Len(values) THEN st
    ELSE write_hum_elems(values, index + 1, indent_level,
             write_hum_write_loop(at(values, index), index = 0, indent_level + 1, st))

write_hum_write_loop(s, first_elem, indent_level, st) ==
    LET st1 == write_hum_separator(s, first_elem, indent_level, st)
        col1 == st1.already_written_on_line
    IN IF s.tag = "AtomRef" \/ s.tag = "AtomOwned"
       THEN LET w2 == st1.w \o s.atom
                col2 == col1 + Len(s.atom)
            IN [w |-> w2, already_written_on_line |-> col2,
                log |-> Append(st1.log,
                           HumEvent("atom", s, indent_level, col1, col2, w2))]
       ELSE LET w2 == write_u8(LPAREN, st1.w)
                st2 == [w |-> w2, already_written_on_line |-> col1 + 1,
                        log |-> Append(st1.log,
                                   HumEvent("open", s, indent_level, col1, col1 + 1, w2))]
                st3 == write_hum_elems(s.values, 0, indent_level, st2)
                col3 == st3.already_written_on_line
                w4 == write_u8(RPAREN, st3.w)
            IN [w |-> w4, already_written_on_line |-> col3 + 1,
                log |-> Append(st3.log,
                           HumEvent("close", s, indent_level, col3, col3 + 1, w4))]

write_hum(s, w) ==
    write_hum_write_loop(escape(s), TRUE, 0,
        [w |-> w, already_written_on_line |-> 0, log |-> <<>>])

to_bytes_hum(s) == write_hum(s, <<>>).w

---------------------------------------------------------------------------
(* Parser: src/src/parse.rs.  A parser result (nom's IResult) is a record  *)
(*   [kind, code, rest, val]:                                              *)
(*   kind = "Ok"      : val is the output, rest the remaining input;       *)
(*   kind = "Error"   : nom::Err::Error, recoverable (alt, many0 go on);   *)
(*   kind = "Failure" : nom::Err::Failure, not recoverable;                *)
(*   kind = "Panic"   : the thread panicked (arithmetic overflow in a      *)
(*                      build with overflow checks); it unwinds through    *)
(*                      every combinator.                                  *)
(* For the error kinds code is nom's ErrorKind and rest the input at the   *)
(* error.                                                                  *)

Ok(rest, val) == [kind |-> "Ok", code |-> "", rest |-> rest, val |-> val]
Error(input, code) == [kind |-> "Error", code |-> code, rest |-> input, val |-> <<>>]
Failure(input, code) == [kind |-> "Failure", code |-> code, rest |-> input, val |-> <<>>]
Panic == [kind |-> "Panic", code |-> "overflow", rest |-> <<>>, val |-> <<>>]

\* Option<u8>, and the panic of an overflowing u8 operation
Some(v) == [tag |-> "Some", v |-> v]
None == [tag |-> "None", v |-> 0]
Overflow == [tag |-> "Panic", v |-> 0]

\* input.take_split(count): (suffix, prefix)
take_split(input, count) ==
    [rest |-> SubSeq(input, count + 1, Len(input)), taken |-> SubSeq(input, 1, count)]

\* a faulty variant of the blank arm: a carriage return is not skipped
IsBlank_no_cr(c) == c = SPACE \/ c = TAB \/ c = LF

IsBlank(c) == c = SPACE \/ c = TAB \/ c = CR \/ c = LF

\* lines 21-23: skip a comment up to (not including) the end of line
RECURSIVE skip_comment(_, _)
skip_comment(input, index) ==
    IF index < Len(input) /\ at(input, index) # CR /\ at(input, index) # LF
    THEN skip_comment(input, index + 1)
    ELSE index

RECURSIVE space_or_comments_loop(_, _)
space_or_comments_loop(input, index) ==
    IF index < Len(input)
    THEN IF IsBlank(at(input, index)) THEN space_or_comments_loop(input, index + 1)
         ELSE IF at(input, index) = SEMI
         THEN space_or_comments_loop(input, skip_comment(input, index))
         ELSE index
    ELSE Len(input)

space_or_comments(input) ==
    LET sp == take_split(input, space_or_comments_loop(input, 0))
    IN Ok(sp.rest, sp.taken)

\* a faulty variant of the delimiter arm: a double quote does not end a run
IsDelimiter_no_quote(c) ==
    \/ c = SEMI \/ c = LPAREN \/ c = RPAREN
    \/ c = SPACE \/ c = TAB \/ c = CR \/ c = LF

IsDelimiter(c) ==
    \/ c = SEMI \/ c = LPAREN \/ c = RPAREN \/ c = DQUOTE
    \/ c = SPACE \/ c = TAB \/ c = CR \/ c = LF

\* a faulty variant of the marker arms: only #| is a marker
IsCommentMarker_hash_pipe_only(input, index) ==
    at(input, index) = PIPE /\ index > 0 /\ at(input, index - 1) = HASH

\* lines 39-50: the arms that fail on a block-comment marker ending at index
IsCommentMarker(input, index) ==
    \/ at(input, index) = HASH /\ index > 0 /\ at(input, index - 1) = PIPE
    \/ at(input, index) = PIPE /\ index > 0 /\ at(input, index - 1) = HASH

\* the loop returns at the first index that is a delimiter or ends a
\* block-comment marker, and takes the whole input when there is none
unquoted_string_(input) ==
    LET stops == {index \in 0..(Len(input) - 1) :
                     IsDelimiter(at(input, index)) \/ IsCommentMarker(input, index)}
    IN IF stops = {}
       THEN LET sp == take_split(input, Len(input)) IN Ok(sp.rest, sp.taken)
       ELSE LET index == Least(stops) IN
            IF IsDelimiter(at(input, index))
            THEN LET sp == take_split(input, index) IN Ok(sp.rest, sp.taken)
            ELSE Failure(input, "Not")

\* a faulty variant of the match: the empty run is a failure, not an error
unquoted_string_match_hard(input, r) ==
    IF r.kind = "Ok"
    THEN IF Len(r.val) = 0 THEN Failure(input, "NonEmpty") ELSE Ok(r.rest, r.val)
    ELSE r

\* lines 58-70: the match on what unquoted_string_ returned
unquoted_string_match(input, r) ==
    IF r.kind = "Ok"
    THEN IF Len(r.val) = 0 THEN Error(input, "NonEmpty") ELSE Ok(r.rest, r.val)
    ELSE r

unquoted_string(input) == unquoted_string_match(input, unquoted_string_(input))

digit(input, index) ==
    IF index >= Len(input) THEN None
    ELSE LET c == at(input, index) IN
         IF c \in 48..57 THEN Some(c - 48) ELSE None

\* a faulty variant of hex_digit: the upper-case digits are not accepted
hex_digit_lower_only(input, index) ==
    IF index >= Len(input) THEN None
    ELSE LET c == at(input, index) IN
         IF c \in 48..57 THEN Some(c - 48)
         ELSE IF c \in 97..102 THEN Some(c - 97 + 10)
         ELSE None

hex_digit(input, index) ==
    IF index >= Len(input) THEN None
    ELSE LET c == at(input, index) IN
         IF c \in 48..57 THEN Some(c - 48)
         ELSE IF c \in 65..70 THEN Some(c - 65 + 10)
         ELSE IF c \in 97..102 THEN Some(c - 97 + 10)
         ELSE None

\* u8 arithmetic: an overflowing operation panics when the build checks
\* overflow (debug profile) and wraps modulo 2^8 otherwise (release profile).
u8_op(a, b, exact) ==
    IF a.tag # "Some" THEN a
    ELSE IF b.tag # "Some" THEN b
    ELSE IF exact <= 255 THEN Some(exact)
    ELSE IF overflow_checks THEN Overflow
    ELSE Some(exact % 256)

u8_mul(a, b) == u8_op(a, b, a.v * b.v)
u8_add(a, b) == u8_op(a, b, a.v + b.v)

three_digits(input, index) ==
    LET d1 == digit(input, index)
        d2 == digit(input, index + 1)
        d3 == digit(input, index + 2)
    IN IF d1.tag = "None" \/ d2.tag = "None" \/ d3.tag = "None" THEN None
       ELSE u8_add(u8_add(u8_mul(Some(100), d1), u8_mul(Some(10), d2)), d3)

two_hex_digits(input, index) ==
    LET d1 == hex_digit(input, index)
        d2 == hex_digit(input, index + 1)
    IN IF d1.tag = "None" \/ d2.tag = "None" THEN None
       ELSE u8_add(u8_mul(Some(16), d1), d2)

\* lines 137-142: after backslash-newline, skip the blanks that follow
RECURSIVE skip_continuation(_, _)
skip_continuation(input, index) ==
    IF index + 1 < Len(input)
       /\ (at(input, index + 1) = SPACE \/ at(input, index + 1) = TAB)
    THEN skip_continuation(input, index + 1)
    ELSE index

\* what one backslash escape leaves: the index to go on from and the buffer
Step(index, buf) == [index |-> index, buf |-> buf, panic |-> FALSE]
PanicStep == [index |-> 0, buf |-> <<>>, panic |-> TRUE]

\* lines 159-179: a numeric escape: push the value v and skip the digits, or
\* push the backslash and the byte c after it when there is no value
numeric_escape(index, buf, v, c) ==
    IF v.tag = "Some" THEN Step(index + 2 + 1, Append(buf, v.v))
    ELSE IF v.tag = "Panic" THEN PanicStep
    ELSE Step(index + 1, buf \o <<BACKSLASH, c>>)

\* lines 126-180: the backslash arm; index is already past the backslash
quoted_string_escape(input, index, buf) ==
    LET c == at(input, index) IN
    IF c = LF THEN Step(skip_continuation(input, index) + 1, buf)
    ELSE IF c = SQUOTE \/ c = DQUOTE \/ c = BACKSLASH THEN Step(index + 1, Append(buf, c))
    ELSE IF c = 110 THEN Step(index + 1, Append(buf, LF))
    ELSE IF c = 114 THEN Step(index + 1, Append(buf, CR))
    ELSE IF c = 116 THEN Step(index + 1, Append(buf, TAB))
    ELSE IF c = 98 THEN Step(index + 1, Append(buf, BS))
    ELSE IF c = 120 THEN numeric_escape(index, buf, two_hex_digits(input, index + 1), c)
    ELSE numeric_escape(index, buf, three_digits(input, index), c)

\* the first index from index on that holds a double quote or a backslash
literal_run_end(input, index) ==
    LET stops == {i \in index..(Len(input) - 1) :
                     at(input, i) = DQUOTE \/ at(input, i) = BACKSLASH}
    IN IF stops = {} THEN Len(input) ELSE Least(stops)

RECURSIVE quoted_string_loop(_, _, _)
\* the loop goes on after an escape, unless the escape panicked
quoted_string_continue(input, st) ==
    IF st.panic THEN Panic ELSE quoted_string_loop(input, st.index, st.buf)

\* a run of bytes that are neither a double quote nor a backslash is pushed
\* to the buffer in one step (line 181 for each byte)
quoted_string_literal(input, index, next, buf) ==
    quoted_string_loop(input, next, buf \o SubSeq(input, index + 1, next))

\* lines 120-183: the loop from index on
quoted_string_loop(input, index, buf) ==
    IF index < Len(input)
    THEN IF at(input, index) = DQUOTE THEN Ok(take_split(input, index).rest, buf)
         ELSE IF at(input, index) = BACKSLASH
         THEN IF index + 1 = Len(input) THEN Failure(input, "Eof")
              ELSE quoted_string_continue(input,
                       quoted_string_escape(input, index + 1, buf))
         ELSE quoted_string_literal(input, index, literal_run_end(input, index), buf)
    ELSE Failure(input, "Eof")

quoted_string(input) == quoted_string_loop(input, 0, <<>>)

\* nom::character::complete::char
char(c, input) ==
    IF Len(input) > 0 /\ at(input, 0) = c
    THEN Ok(SubSeq(input, 2, Len(input)), c)
    ELSE Error(input, "Char")

\* nom::sequence::delimited, from its second parser on: r2 is what the
\* middle parser returned, r3 what the closing one returned
delimited_close(r2, r3) ==
    IF r3.kind # "Ok" THEN r3 ELSE Ok(r3.rest, r2.val)

\* delimited(char('"'), quoted_string, char('"')) after the opening quote
quoted_atom_body(r2) ==
    IF r2.kind # "Ok" THEN r2 ELSE delimited_close(r2, char(DQUOTE, r2.rest))

quoted_atom_open(r1) ==
    IF r1.kind # "Ok" THEN r1 ELSE quoted_atom_body(quoted_string(r1.rest))

quoted_atom(input) == quoted_atom_open(char(DQUOTE, input))

\* nom::branch::alt on two parsers: the second runs only when the first
\* returns a recoverable Error; with nom's Error type the error of the
\* last branch is the one reported.
alt(r1, r2) == IF r1.kind = "Error" THEN r2 ELSE r1

\* lines 193-198: map(alt(..), Sexp::Atom)
atom_map(r) == IF r.kind = "Ok" THEN Ok(r.rest, Atom(r.val)) ELSE r

atom(input) == atom_map(alt(unquoted_string(input), quoted_atom(input)))

RECURSIVE sexp_no_leading_blank(_)
RECURSIVE sexp_in_list(_)
RECURSIVE many0_sexp(_, _)

\* a faulty variant of many0: a failure of the element parser ends the
\* repetition as an error does
many0_step_swallow(i, acc, r) ==
    IF r.kind # "Ok" THEN Ok(i, acc)
    ELSE IF Len(r.rest) = Len(i) THEN Error(i, "Many0")
    ELSE many0_sexp(r.rest, Append(acc, r.val))

\* nom::multi::many0, on what the element parser returned for input i
many0_step(i, acc, r) ==
    IF r.kind = "Error" THEN Ok(i, acc)
    ELSE IF r.kind # "Ok" THEN r
    ELSE IF Len(r.rest) = Len(i) THEN Error(i, "Many0")
    ELSE many0_sexp(r.rest, Append(acc, r.val))

\* nom::multi::many0(sexp_no_leading_blank)
many0_sexp(i, acc) == many0_step(i, acc, sexp_no_leading_blank(i))

\* lines 205-210: delimited(pair(char('('), space_or_comments), many0(..),
\* char(')')) mapped to Sexp::List, parser after parser
sexp_in_list_close(r3, r4) ==
    IF r4.kind # "Ok" THEN r4 ELSE Ok(r4.rest, List(r3.val))

sexp_in_list_elems(r3) ==
    IF r3.kind # "Ok" THEN r3 ELSE sexp_in_list_close(r3, char(RPAREN, r3.rest))

sexp_in_list_open(r1) ==
    IF r1.kind # "Ok" THEN r1
    ELSE sexp_in_list_elems(many0_sexp(space_or_comments(r1.rest).rest, <<>>))

sexp_in_list(input) == sexp_in_list_open(char(LPAREN, input))

\* a faulty variant of terminated: the blanks and comments after the sexp
\* are left in the input
terminated_nothing(r) == r

\* nom::sequence::terminated(.., space_or_comments) on what the first parser
\* returned
terminated_space_or_comments(r) ==
    IF r.kind # "Ok" THEN r ELSE Ok(space_or_comments(r.rest).rest, r.val)

sexp_no_leading_blank(input) ==
    terminated_space_or_comments(alt(atom(input), sexp_in_list(input)))

from_slice_allow_remaining(input) ==
    sexp_no_leading_blank(space_or_comments(input).rest)

\* a faulty variant of the match: the bytes left over are not looked at
from_slice_match_lenient(r) ==
    IF r.kind # "Ok" THEN r ELSE Ok(<<>>, r.val)

\* lines 244-253: the match on what from_slice_allow_remaining returned
from_slice_match(r) ==
    IF r.kind # "Ok" THEN r
    ELSE IF Len(r.rest) = 0 THEN Ok(<<>>, r.val)
    ELSE Failure(r.rest, "Eof")

from_slice(input) == from_slice_match(from_slice_allow_remaining(input))

\* lines 275-283: the check of the remaining input
from_slice_multi_match(r) ==
    IF r.kind # "Ok" THEN r
    ELSE IF Len(r.rest) = 0 THEN Ok(<<>>, r.val)
    ELSE Failure(r.rest, "Eof")

from_slice_multi(input) ==
    from_slice_multi_match(many0_sexp(space_or_comments(input).rest, <<>>))

---------------------------------------------------------------------------
(* Conversion helpers: src/src/of_sexp.rs.  A Result is the record         *)
(* [kind, code, rest, val] of the parser with rest empty: kind = "Ok" with *)
(* the value in val, or kind = "Err" with the IntoSexpError variant in     *)
(* code and its fields in val.                                             *)

OkValue(v) == [kind |-> "Ok", code |-> "", rest |-> <<>>, val |-> v]
Err(code, fields) == [kind |-> "Err", code |-> code, rest |-> <<>>, val |-> fields]

\* a faulty variant of extract_enum: the arguments are the whole list, the
\* constructor included
extract_enum_whole_list(s, type_) ==
    IF IsAtom(s) THEN OkValue(<<s.atom, <<>>>>)
    ELSE IF Len(s.list) = 0
    THEN Err("ExpectedConstructorGotEmptyList", [type_ |-> type_])
    ELSE IF IsAtom(at(s.list, 0))
    THEN OkValue(<<at(s.list, 0).atom, s.list>>)
    ELSE Err("ExpectedConstructorGotListInList", [type_ |-> type_])

\* the value is the pair (constructor, arguments); &list[1..] is the list
\* without its first element
extract_enum(s, type_) ==
    IF IsAtom(s) THEN OkValue(<<s.atom, <<>>>>)
    ELSE IF Len(s.list) = 0
    THEN Err("ExpectedConstructorGotEmptyList", [type_ |-> type_])
    ELSE IF IsAtom(at(s.list, 0))
    THEN OkValue(<<at(s.list, 0).atom, SubSeq(s.list, 2, Len(s.list))>>)
    ELSE Err("ExpectedConstructorGotListInList", [type_ |-> type_])

\* String::from_utf8_lossy(key), as code points, from the i-th byte on: an
\* ASCII byte is itself, a well-formed two-byte sequence is its code point,
\* and a byte that begins no well-formed sequence is U+FFFD.  (Sequences of
\* three and four bytes are not decoded: the keys of the model have none.)
RECURSIVE from_utf8_lossy_from(_, _)
from_utf8_lossy_from(b, i) ==
    IF i > Len(b) THEN <<>>
    ELSE IF b[i] < 128 THEN <<b[i]>> \o from_utf8_lossy_from(b, i + 1)
    ELSE IF b[i] \in 194..223 /\ i < Len(b) /\ b[i + 1] \in 128..191
    THEN <<(b[i] - 192) * 64 + (b[i + 1] - 128)>> \o from_utf8_lossy_from(b, i + 2)
    ELSE <<65533>> \o from_utf8_lossy_from(b, i + 1)

from_utf8_lossy(b) == from_utf8_lossy_from(b, 1)

\* a HashMap is the set of its entries <<key, value>>
\* a faulty variant of the insertion: a repeated key replaces the entry
extract_map_insert_overwrite(map, key, value, type_) ==
    OkValue({e \in map : e[1] # key} \cup {<<key, value>>})

\* lines 124-131: map.insert(key, value) and the test of what it returned
extract_map_insert(map, key, value, type_) ==
    IF \E e \in map : e[1] = key
    THEN Err("DuplicateKeyInMap",
             [type_ |-> type_, key |-> Some(from_utf8_lossy(key))])
    ELSE OkValue(map \cup {<<key, value>>})

\* lines 119-138: the match on one element
extract_map_elem(map, elem, type_) ==
    IF IsAtom(elem) THEN Err("ExpectedPairForMapGotAtom", [type_ |-> type_])
    ELSE IF Len(elem.list) = 2 /\ IsAtom(at(elem.list, 0))
    THEN extract_map_insert(map, at(elem.list, 0).atom, at(elem.list, 1), type_)
    ELSE Err("ExpectedPairForMapGotList",
             [type_ |-> type_, list_len |-> Len(elem.list)])

RECURSIVE extract_map_loop(_, _, _, _)
\* an error returns from the loop, otherwise the next element is looked at
extract_map_next(list, index, r, type_) ==
    IF r.kind # "Ok" THEN r ELSE extract_map_loop(list, index + 1, r.val, type_)

\* line 118: for elem in list.iter()
extract_map_loop(list, index, map, type_) ==
    IF index >= Len(list) THEN OkValue(map)
    ELSE extract_map_next(list, index,
                          extract_map_elem(map, at(list, index), type_), type_)

extract_map(list, type_) == extract_map_loop(list, 0, {}, type_)

---------------------------------------------------------------------------
(* The inputs of the model. *)

\* n copies of byte b
Rep(b, n) == [i \in 1..n |-> b]

\* all byte strings over alphabet of length at most n
StringsUpTo(alphabet, n) == UNION {[1..k -> alphabet] : k \in 0..n}

\* all trees of exactly n nodes (atoms and lists) with atoms drawn from atoms
RECURSIVE TreesOfSize(_, _)
RECURSIVE ForestsOfSize(_, _)
TreesOfSize(atoms, n) ==
    (IF n = 1 THEN {Atom(a) : a \in atoms} ELSE {})
        \cup {List(f) : f \in ForestsOfSize(atoms, n - 1)}

ForestsOfSize(atoms, m) ==
    IF m = 0 THEN {<<>>}
    ELSE UNION {{<<t>> \o f : t \in TreesOfSize(atoms, k),
                              f \in ForestsOfSize(atoms, m - k)} : k \in 1..m}

TreesUpTo(atoms, n) == UNION {TreesOfSize(atoms, k) : k \in 1..n}

\* atoms of the trees given to the three writers: empty, plain, the two
\* halves of a block-comment marker, NUL followed by a digit, a byte >= 127,
\* a backslash followed by n, a blank
TreeAtoms ==
    {<<>>, <<97>>, <<HASH>>, <<PIPE>>, <<0, 49>>, <<200>>, <<BACKSLASH, 110>>, <<SPACE>>}

\* atoms of the wide trees given to write_hum: their sizes straddle the
\* line width (44 + 45 = 89, 45 + 45 = 90, 91 alone exceeds it); the last
\* one is written quoted, with an escaped newline, and has size 45
HumAtoms ==
    {Rep(97, 1), Rep(97, 44), Rep(97, 45), Rep(97, MAX_LINE_WIDTH + 1),
     <<LF>> \o Rep(98, 41)}

\* bytes of the strings given to the escape policy, one or more per class
EscapeAlphabet ==
    {0, BS, LF, SPACE, DQUOTE, HASH, 49, BACKSLASH, 97, 110, PIPE, 127, 255}

\* every single byte, and every string over the alphabet
EscapeStrings(n) == StringsUpTo(EscapeAlphabet, n) \cup [1..1 -> Byte]

\* atoms of the trees whose written bytes are classified: empty, plain, NUL,
\* a line feed, a control byte, DEL, the last byte, a byte >= 128 before a
\* plain one, a double quote
PrintAtoms ==
    {<<>>, <<97>>, <<0>>, <<LF>>, <<31>>, <<127>>, <<255>>, <<128, 97>>, <<DQUOTE>>}

\* a list wider than a line: a plain atom of 45 bytes, then NUL and 22 bytes
\* of value 255
PrintWide == List(<<Atom(Rep(97, 45)), Atom(<<0>> \o Rep(255, 22))>>)

\* the small trees, every one-byte atom alone and in a list, the wide list
PrintTrees(n) ==
    TreesUpTo(PrintAtoms, n) \cup {Atom(d) : d \in [1..1 -> Byte]}
        \cup {List(<<Atom(d)>>) : d \in [1..1 -> Byte]} \cup {PrintWide}

\* the small slices, and every one-byte atom twice
PrintForests(n) ==
    UNION {ForestsOfSize(PrintAtoms, m) : m \in 0..n}
        \cup {<<Atom(d), Atom(d)>> : d \in [1..1 -> Byte]}

\* bytes of the raw inputs given to the parser
ParseAlphabet == {LPAREN, RPAREN, DQUOTE, BACKSLASH, 97, SPACE, 57, SEMI}

\* "(a b c)(d e)"
TwoLists == <<40, 97, 32, 98, 32, 99, 41, 40, 100, 32, 101, 41>>

\* inputs with a comment ended by a line end: "a;a\n", ";a\na", "(a;)\n)"
CommentInputs ==
    {<<97, SEMI, 97, LF>>, <<SEMI, 97, LF, 97>>, <<LPAREN, 97, SEMI, RPAREN, LF, RPAREN>>}

\* inputs with bytes left after the first sexp and its trailing blanks and
\* comment: "a ;a\n a", "(a)\t;\r\n(a"
LeftoverInputs ==
    {<<97, SPACE, SEMI, 97, LF, SPACE, 97>>,
     <<LPAREN, 97, RPAREN, TAB, SEMI, CR, LF, LPAREN, 97>>}

\* a list opened before a decimal escape above 255: ("\999
OverflowInputs == {<<LPAREN, DQUOTE, BACKSLASH, 57, 57, 57>>}

ParseInputs(n) ==
    StringsUpTo(ParseAlphabet, n) \cup {TwoLists} \cup CommentInputs
        \cup LeftoverInputs \cup OverflowInputs

\* bytes of the inputs that are parsed and written again
RtAlphabet == {LPAREN, RPAREN, SPACE, DQUOTE, 97}

\* "( ATOM)", "(    ATOM)", "\t()"
RtExamples ==
    {<<LPAREN, SPACE, 65, 84, 79, 77, RPAREN>>,
     <<LPAREN, SPACE, SPACE, SPACE, SPACE, 65, 84, 79, 77, RPAREN>>,
     <<TAB, LPAREN, RPAREN>>}

RtInputs(n) == StringsUpTo(RtAlphabet, n) \cup RtExamples

\* the bytes of a quoted atom with the given body
Quoted(body) == <<DQUOTE>> \o body \o <<DQUOTE>>

\* quoted atoms with one decimal escape, for every choice of three digits,
\* alone, after a byte, before a letter and before a further digit
DecimalEscapeInputs ==
    {Quoted(pre \o <<BACKSLASH, d1, d2, d3>> \o post) :
        pre \in {<<>>, <<65>>}, post \in {<<>>, <<65>>, <<49>>},
        d1 \in 48..57, d2 \in 48..57, d3 \in 48..57}

\* the byte after the backslash: n r t b, backslash, the two quotes, x and X,
\* newline, the digits 0 and 1, a letter that names no escape, and a space
EscapedBytes ==
    {110, 114, 116, 98, BACKSLASH, DQUOTE, SQUOTE, 120, 88, LF, 48, 49, 97, SPACE}

\* the bytes after it: the hex digits A f 1, the letters G and Z, and blanks
TailAlphabet == {65, 102, 49, 71, 90, SPACE, TAB}

EscapeInputs(n) ==
    {Quoted(pre \o <<BACKSLASH, c>> \o tail) :
        pre \in {<<>>, <<65>>}, c \in EscapedBytes, tail \in StringsUpTo(TailAlphabet, n)}

\* the quoted atoms of basic_sexps that hold escapes:
\* "\000A\123" and "\000A\x7B\x99\x9Z"
UnescapeExamples ==
    {Quoted(<<BACKSLASH, 48, 48, 48, 65, BACKSLASH, 49, 50, 51>>),
     Quoted(<<BACKSLASH, 48, 48, 48, 65, BACKSLASH, 120, 55, 66,
              BACKSLASH, 120, 57, 57, BACKSLASH, 120, 57, 90>>)}

UnescapeInputs(n) == DecimalEscapeInputs \cup EscapeInputs(n) \cup UnescapeExamples

\* the bytes of the inputs with unquoted runs: a letter, the two bytes of
\* the block-comment markers, the parentheses, a blank, the double quote and
\* the backslash
RunAlphabet == {97, HASH, PIPE, LPAREN, RPAREN, SPACE, DQUOTE, BACKSLASH}

\* a run ended by each of the bytes of lines 36-38
DelimiterInputs == {<<97, c, 97>> : c \in {SEMI, LPAREN, RPAREN, DQUOTE, SPACE, TAB, CR, LF}}

\* markers in balanced inputs, in nested lists and after earlier sexps:
\* "((a#|))", "(a (|#) a)", "() (a) b#|b", "(a)(#|)", "(a)\t|#"
MarkerInputs ==
    {<<LPAREN, LPAREN, 97, HASH, PIPE, RPAREN, RPAREN>>,
     <<LPAREN, 97, SPACE, LPAREN, PIPE, HASH, RPAREN, SPACE, 97, RPAREN>>,
     <<LPAREN, RPAREN, SPACE, LPAREN, 97, RPAREN, SPACE, 98, HASH, PIPE, 98>>,
     <<LPAREN, 97, RPAREN, LPAREN, HASH, PIPE, RPAREN>>,
     <<LPAREN, 97, RPAREN, TAB, PIPE, HASH>>}

RunInputs(n) == StringsUpTo(RunAlphabet, n) \cup DelimiterInputs \cup MarkerInputs

\* the bytes of the inputs that blanks and comments are inserted into: the
\* parentheses, a letter, a blank, the double quote and the semicolon
WsAlphabet == {LPAREN, RPAREN, 97, SPACE, DQUOTE, SEMI}

\* longer ones: "(a (a) ";")", "a"a;"(", "( a)(a)", " ;a"
WsExamples ==
    {<<LPAREN, 97, SPACE, LPAREN, 97, RPAREN, SPACE, DQUOTE, SEMI, DQUOTE, RPAREN>>,
     <<LPAREN, 97, DQUOTE, 97, SEMI, DQUOTE, LPAREN, RPAREN, RPAREN>>,
     <<LPAREN, SPACE, 97, RPAREN, LPAREN, 97, RPAREN>>,
     <<SPACE, SEMI, 97, LF, TAB, CR, 97>>}

WsInputs(n) == StringsUpTo(WsAlphabet, n) \cup WsExamples

\* a (key value) pair
Pair(key, value) == List(<<Atom(key), value>>)

\* elements of the slices given to extract_map: pairs with the keys a, b,
\* the ill-formed byte 200 and the two-byte sequence for U+00E9, two pairs
\* with the same key and different values, an atom, and lists that are no
\* pair: empty, of one, of three, with a list as the key
MapElems ==
    {Pair(<<97>>, Atom(<<49>>)), Pair(<<97>>, List(<<>>)), Pair(<<98>>, Atom(<<49>>)),
     Pair(<<200>>, Atom(<<49>>)), Pair(<<195, 169>>, Atom(<<49>>)),
     Atom(<<97>>), List(<<>>), List(<<Atom(<<97>>)>>),
     List(<<Atom(<<97>>), Atom(<<49>>), Atom(<<49>>)>>),
     List(<<List(<<>>), Atom(<<49>>)>>)}

MapLists(n) == UNION {[1..k -> MapElems] : k \in 0..n}

\* the type names handed to the conversion helpers
TypeNames == {"MyEnum2"}

---------------------------------------------------------------------------
(* The state machine. *)

NoResult == [kind |-> "None", code |-> "", rest |-> <<>>, val |-> <<>>]
Bool(b) == [kind |-> "Bool", code |-> "", rest |-> <<>>, val |-> b]

InitCommon ==
    /\ sexps = <<>>
    /\ writer = "none"
    /\ hum_log = <<>>
    /\ mach_log = <<>>
    /\ result = NoResult
    /\ rebuffer = <<>>
    /\ overflow_checks \in BOOLEAN

\* a tree built with atom() / list(), ready to be written
Init ==
    /\ sexp \in TreesUpTo(TreeAtoms, MaxNodes)
    /\ buffer = <<>>
    /\ pc = "tree"
    /\ InitCommon

\* the tree of the example of to_bytes_hum, ((foo bar) (baz (1 2 3))), and
\* trees (A (((x)))) with an atom A of 79 and of 80 bytes
HumExamples ==
    {List(<<List(<<Atom(<<102, 111, 111>>), Atom(<<98, 97, 114>>)>>),
            List(<<Atom(<<98, 97, 122>>),
                   List(<<Atom(<<49>>), Atom(<<50>>), Atom(<<51>>)>>)>>)>>),
     List(<<Atom(Rep(97, 79)), List(<<List(<<List(<<Atom(<<120>>)>>)>>)>>)>>),
     List(<<Atom(Rep(97, 80)), List(<<List(<<List(<<Atom(<<120>>)>>)>>)>>)>>)}

InitHum ==
    /\ sexp \in TreesUpTo(HumAtoms, HumMaxNodes) \cup HumExamples
    /\ buffer = <<>>
    /\ pc = "tree"
    /\ InitCommon

InitEscape ==
    /\ \E d \in EscapeStrings(MaxAtomLen) : sexp = Atom(d)
    /\ buffer = <<>>
    /\ pc = "tree"
    /\ InitCommon

\* raw bytes ready to be parsed
InitParse ==
    /\ sexp = List(<<>>)
    /\ buffer \in ParseInputs(MaxInputLen)
    /\ pc = "input"
    /\ InitCommon

\* a quoted atom holding escapes, ready to be parsed
InitUnescape ==
    /\ sexp = List(<<>>)
    /\ buffer \in UnescapeInputs(MaxTailLen)
    /\ pc = "input"
    /\ InitCommon

\* bytes with unquoted runs, ready to be parsed
InitRuns ==
    /\ sexp = List(<<>>)
    /\ buffer \in RunInputs(MaxRunInputLen)
    /\ pc = "input"
    /\ InitCommon

\* bytes with blanks, comments and tokens, ready to be skipped or parsed
InitWs ==
    /\ sexp = List(<<>>)
    /\ buffer \in WsInputs(MaxWsInputLen)
    /\ pc = "input"
    /\ InitCommon

\* a slice of trees ready to be written by to_bytes_multi; the slices have
\* fewer than MaxNodes nodes in all, the empty slice among them
InitMulti ==
    /\ sexp = List(<<>>)
    /\ sexps \in UNION {ForestsOfSize(TreeAtoms, m) : m \in 0..(MaxNodes - 1)}
    /\ buffer = <<>>
    /\ pc = "trees"
    /\ writer = "none"
    /\ hum_log = <<>>
    /\ mach_log = <<>>
    /\ result = NoResult
    /\ rebuffer = <<>>
    /\ overflow_checks \in BOOLEAN

\* raw bytes ready to be parsed and written again
InitRt ==
    /\ sexp = List(<<>>)
    /\ buffer \in RtInputs(MaxInputLen)
    /\ pc = "input"
    /\ InitCommon

\* a tree ready to be taken apart by extract_enum, or a slice of trees ready
\* for extract_map
InitExtract ==
    /\ \/ /\ sexp \in TreesUpTo(TreeAtoms, MaxNodes)
          /\ sexps = <<>>
          /\ pc = "tree"
       \/ /\ sexp = List(<<>>)
          /\ sexps \in MapLists(MaxMapLen)
          /\ pc = "trees"
    /\ buffer = <<>>
    /\ writer = "none"
    /\ hum_log = <<>>
    /\ mach_log = <<>>
    /\ result = NoResult
    /\ rebuffer = <<>>
    /\ overflow_checks \in BOOLEAN

WriterOps == {"to_bytes", "to_bytes_mach", "to_bytes_hum"}

ToBytes ==
    /\ pc = "tree"
    /\ buffer' = to_bytes(sexp)
    /\ writer' = "plain"
    /\ pc' = "to_bytes"
    /\ UNCHANGED <<sexp, sexps, hum_log, mach_log, result, rebuffer, overflow_checks>>

ToBytesMach ==
    /\ pc = "tree"
    /\ LET r == write_mach(sexp, <<>>)
       IN buffer' = r.w /\ mach_log' = r.log
    /\ writer' = "mach"
    /\ pc' = "to_bytes_mach"
    /\ UNCHANGED <<sexp, sexps, hum_log, result, rebuffer, overflow_checks>>

ToBytesHum ==
    /\ pc = "tree"
    /\ LET r == write_hum(sexp, <<>>)
       IN buffer' = r.w /\ hum_log' = r.log
    /\ writer' = "hum"
    /\ pc' = "to_bytes_hum"
    /\ UNCHANGED <<sexp, sexps, mach_log, result, rebuffer, overflow_checks>>

ToBytesMulti ==
    /\ pc = "trees"
    /\ buffer' = to_bytes_multi(sexps)
    /\ writer' = "multi"
    /\ pc' = "to_bytes_multi"
    /\ UNCHANGED <<sexp, sexps, hum_log, mach_log, result, rebuffer, overflow_checks>>

FromSlice ==
    /\ pc \in WriterOps \cup {"input"}
    /\ result' = from_slice(buffer)
    /\ pc' = "from_slice"
    /\ UNCHANGED <<sexp, sexps, buffer, writer, hum_log, mach_log,
                   rebuffer, overflow_checks>>

FromSliceAllowRemaining ==
    /\ pc \in WriterOps \cup {"input"}
    /\ result' = from_slice_allow_remaining(buffer)
    /\ pc' = "from_slice_allow_remaining"
    /\ UNCHANGED <<sexp, sexps, buffer, writer, hum_log, mach_log,
                   rebuffer, overflow_checks>>

FromSliceMulti ==
    /\ pc \in WriterOps \cup {"input", "to_bytes_multi"}
    /\ result' = from_slice_multi(buffer)
    /\ pc' = "from_slice_multi"
    /\ UNCHANGED <<sexp, sexps, buffer, writer, hum_log, mach_log,
                   rebuffer, overflow_checks>>

\* the tree that from_slice returned is written again by the same writer
ReEmit ==
    /\ pc = "from_slice"
    /\ writer \in {"plain", "mach", "hum"}
    /\ result.kind = "Ok"
    /\ rebuffer' = IF writer = "plain" THEN to_bytes(result.val)
                   ELSE IF writer = "mach" THEN to_bytes_mach(result.val)
                   ELSE to_bytes_hum(result.val)
    /\ pc' = "reemit"
    /\ UNCHANGED <<sexp, sexps, buffer, writer, hum_log, mach_log,
                   result, overflow_checks>>

\* the tree that from_slice returned for raw input is written by to_bytes
Rt ==
    /\ pc = "from_slice"
    /\ writer = "none"
    /\ result.kind = "Ok"
    /\ rebuffer' = to_bytes(result.val)
    /\ pc' = "rt"
    /\ UNCHANGED <<sexp, sexps, buffer, writer, hum_log, mach_log, result, overflow_checks>>

ExtractEnum ==
    /\ pc = "tree"
    /\ \E type_ \in TypeNames : result' = extract_enum(sexp, type_)
    /\ pc' = "extract_enum"
    /\ UNCHANGED <<sexp, sexps, buffer, writer, hum_log, mach_log,
                   rebuffer, overflow_checks>>

\* the atom parser alone, on the whole input
ParseAtom ==
    /\ pc = "input"
    /\ result' = atom(buffer)
    /\ pc' = "atom"
    /\ UNCHANGED <<sexp, sexps, buffer, writer, hum_log, mach_log,
                   rebuffer, overflow_checks>>

\* the skip alone, on the whole input
SpaceOrComments ==
    /\ pc = "input"
    /\ result' = space_or_comments(buffer)
    /\ pc' = "space_or_comments"
    /\ UNCHANGED <<sexp, sexps, buffer, writer, hum_log, mach_log,
                   rebuffer, overflow_checks>>

\* the unquoted-atom reader on the bytes of the atom
UnquotedString ==
    /\ pc = "tree"
    /\ IsAtom(sexp)
    /\ result' = unquoted_string(sexp.atom)
    /\ pc' = "unquoted_string"
    /\ UNCHANGED <<sexp, sexps, buffer, writer, hum_log, mach_log,
                   rebuffer, overflow_checks>>

ExtractMap ==
    /\ pc = "trees"
    /\ \E type_ \in TypeNames : result' = extract_map(sexps, type_)
    /\ pc' = "extract_map"
    /\ UNCHANGED <<sexp, sexps, buffer, writer, hum_log, mach_log,
                   rebuffer, overflow_checks>>

MustEscape ==
    /\ pc = "tree"
    /\ IsAtom(sexp)
    /\ result' = Bool(must_escape(sexp.atom))
    /\ pc' = "must_escape"
    /\ UNCHANGED <<sexp, sexps, buffer, writer, hum_log, mach_log,
                   rebuffer, overflow_checks>>

WriteEscaped ==
    /\ pc = "tree"
    /\ IsAtom(sexp)
    /\ buffer' = write_escaped(sexp.atom, <<>>)
    /\ writer' = "escaped"
    /\ pc' = "write_escaped"
    /\ UNCHANGED <<sexp, sexps, hum_log, mach_log, result, rebuffer, overflow_checks>>

\* the parser's quoted-atom reader applied to what write_escaped wrote
QuotedAtom ==
    /\ pc = "write_escaped"
    /\ result' = quoted_atom(buffer)
    /\ pc' = "quoted_atom"
    /\ UNCHANGED <<sexp, sexps, buffer, writer, hum_log, mach_log,
                   rebuffer, overflow_checks>>

Next == ToBytes \/ ToBytesMach \/ ToBytesHum \/ FromSlice \/ ReEmit
Spec == Init /\ [][Next]_vars

NextHum == ToBytesHum \/ FromSlice \/ ReEmit
SpecHum == InitHum /\ [][NextHum]_vars

NextEscape ==
    \/ MustEscape \/ WriteEscaped \/ QuotedAtom
    \/ ToBytes \/ ToBytesMach \/ ToBytesHum \/ FromSlice
SpecEscape == InitEscape /\ [][NextEscape]_vars

NextUnescape == FromSlice
SpecUnescape == InitUnescape /\ [][NextUnescape]_vars

---------------------------------------------------------------------------
(* The loops of the parser, one iteration at a time: src/src/parse.rs.     *)
(* While a loop runs, result holds its local variables: the index into the *)
(* input (for many0, the bytes consumed so far) and the buffer or the      *)
(* vector built so far, with the input from the index on in rest.  When   *)
(* the function returns, result holds what it returned.                    *)

Running(input, index, acc) ==
    [kind |-> "Running", code |-> "", rest |-> take_split(input, index).rest,
     val |-> [index |-> index, acc |-> acc]]

\* lines 17-28: one turn of the while loop of space_or_comments
space_or_comments_iteration(input, index) ==
    IF index < Len(input)
    THEN IF IsBlank(at(input, index)) THEN Running(input, index + 1, <<>>)
         ELSE IF at(input, index) = SEMI THEN Running(input, skip_comment(input, index), <<>>)
         ELSE Ok(take_split(input, index).rest, take_split(input, index).taken)
    ELSE Ok(take_split(input, Len(input)).rest, take_split(input, Len(input)).taken)

\* lines 32-54: one turn of the for loop of unquoted_string_
unquoted_string_iteration(input, index) ==
    IF index < Len(input)
    THEN IF IsDelimiter(at(input, index))
         THEN Ok(take_split(input, index).rest, take_split(input, index).taken)
         ELSE IF IsCommentMarker(input, index) THEN Failure(input, "Not")
         ELSE Running(input, index + 1, <<>>)
    ELSE Ok(take_split(input, Len(input)).rest, take_split(input, Len(input)).taken)

\* the loop of quoted_string after a backslash escape
quoted_string_after_escape(input, st) ==
    IF st.panic THEN Panic ELSE Running(input, st.index, st.buf)

\* lines 120-188: one turn of the while loop of quoted_string
quoted_string_iteration(input, index, buf) ==
    IF index < Len(input)
    THEN IF at(input, index) = DQUOTE THEN Ok(take_split(input, index).rest, buf)
         ELSE IF at(input, index) = BACKSLASH
         THEN IF index + 1 = Len(input) THEN Failure(input, "Eof")
              ELSE quoted_string_after_escape(input,
                       quoted_string_escape(input, index + 1, buf))
         ELSE Running(input, index + 1, Append(buf, at(input, index)))
    ELSE Failure(input, "Eof")

\* nom::multi::many0: one turn of its loop, on what the element parser
\* returned for the input i left after index bytes
many0_turn(input, i, acc, r) ==
    IF r.kind = "Error" THEN Ok(i, acc)
    ELSE IF r.kind # "Ok" THEN r
    ELSE IF Len(r.rest) = Len(i) THEN Error(i, "Many0")
    ELSE Running(input, Len(input) - Len(r.rest), Append(acc, r.val))

many0_iteration(input, index, acc) ==
    many0_turn(input, take_split(input, index).rest, acc,
               sexp_no_leading_blank(take_split(input, index).rest))

\* the bytes consumed before the repetition starts: the blanks and comments
\* skipped by space_or_comments in front of rest
ConsumedBefore(input, rest) == Len(input) - Len(space_or_comments(rest).rest)

\* "\999" and its body, and a list whose second element is never closed
StepExamples ==
    {<<DQUOTE, BACKSLASH, 57, 57, 57, DQUOTE>>, <<BACKSLASH, 57, 57, 57, DQUOTE>>,
     <<LPAREN, 97, SPACE, LPAREN, 97>>}

StepInputs(n) == ParseInputs(n) \cup StepExamples

Loops == {"space_or_comments", "unquoted_string_", "quoted_string",
          "from_slice_multi", "sexp_in_list"}

\* no function of the parser has been called yet
InitSteps ==
    /\ sexp = List(<<>>)
    /\ buffer = <<>>
    /\ pc = "input"
    /\ InitCommon

\* the local variables at the entry of a loop: the index is 0 for the
\* scans; the repetition of from_slice_multi starts after the leading
\* blanks, the one of sexp_in_list after the opening parenthesis and the
\* blanks behind it
LoopEntry(loop, input) ==
    IF loop = "from_slice_multi"
    THEN Running(input, ConsumedBefore(input, input), <<>>)
    ELSE IF loop = "sexp_in_list"
    THEN Running(input, ConsumedBefore(input, char(LPAREN, input).rest), <<>>)
    ELSE Running(input, 0, <<>>)

\* a function with a loop is called on an input of the caller's choice
EnterLoop ==
    /\ pc = "input"
    /\ \E loop \in Loops, input \in StepInputs(MaxStepInputLen) :
           /\ loop = "sexp_in_list" => char(LPAREN, input).kind = "Ok"
           /\ buffer' = input
           /\ pc' = loop
           /\ result' = LoopEntry(loop, input)
    /\ UNCHANGED <<sexp, sexps, writer, hum_log, mach_log, rebuffer,
                   overflow_checks>>

SpaceOrCommentsIteration ==
    /\ pc = "space_or_comments"
    /\ result.kind = "Running"
    /\ result' = space_or_comments_iteration(buffer, result.val.index)
    /\ UNCHANGED <<sexp, sexps, buffer, writer, hum_log, mach_log,
                   rebuffer, overflow_checks, pc>>

UnquotedStringIteration ==
    /\ pc = "unquoted_string_"
    /\ result.kind = "Running"
    /\ result' = unquoted_string_iteration(buffer, result.val.index)
    /\ UNCHANGED <<sexp, sexps, buffer, writer, hum_log, mach_log,
                   rebuffer, overflow_checks, pc>>

QuotedStringIteration ==
    /\ pc = "quoted_string"
    /\ result.kind = "Running"
    /\ result' = quoted_string_iteration(buffer, result.val.index, result.val.acc)
    /\ UNCHANGED <<sexp, sexps, buffer, writer, hum_log, mach_log,
                   rebuffer, overflow_checks, pc>>

\* what from_slice_multi does with what one turn of many0 left
from_slice_multi_turn(r) ==
    IF r.kind = "Running" THEN r ELSE from_slice_multi_match(r)

\* what sexp_in_list does with what one turn of many0 left
sexp_in_list_turn(r) ==
    IF r.kind = "Running" THEN r ELSE sexp_in_list_elems(r)

FromSliceMultiIteration ==
    /\ pc = "from_slice_multi"
    /\ result.kind = "Running"
    /\ result' = from_slice_multi_turn(
                     many0_iteration(buffer, result.val.index, result.val.acc))
    /\ UNCHANGED <<sexp, sexps, buffer, writer, hum_log, mach_log,
                   rebuffer, overflow_checks, pc>>

SexpInListIteration ==
    /\ pc = "sexp_in_list"
    /\ result.kind = "Running"
    /\ result' = sexp_in_list_turn(
                     many0_iteration(buffer, result.val.index, result.val.acc))
    /\ UNCHANGED <<sexp, sexps, buffer, writer, hum_log, mach_log,
                   rebuffer, overflow_checks, pc>>

NextSteps ==
    \/ EnterLoop
    \/ SpaceOrCommentsIteration
    \/ UnquotedStringIteration
    \/ QuotedStringIteration
    \/ FromSliceMultiIteration
    \/ SexpInListIteration

SpecSteps == InitSteps /\ [][NextSteps]_vars

\* a tree ready to be written by to_bytes, to_bytes_mach or to_bytes_hum,
\* or a slice ready to be written by to_bytes_multi
InitPrint ==
    /\ \/ /\ sexp \in PrintTrees(MaxPrintNodes)
          /\ sexps = <<>>
          /\ pc = "tree"
       \/ /\ sexp = List(<<>>)
          /\ sexps \in PrintForests(MaxPrintNodes)
          /\ pc = "trees"
    /\ buffer = <<>>
    /\ writer = "none"
    /\ hum_log = <<>>
    /\ mach_log = <<>>
    /\ result = NoResult
    /\ rebuffer = <<>>
    /\ overflow_checks \in BOOLEAN

NextPrint == ToBytes \/ ToBytesMulti \/ ToBytesMach \/ ToBytesHum
SpecPrint == InitPrint /\ [][NextPrint]_vars

NextRuns == ParseAtom \/ FromSlice \/ FromSliceAllowRemaining \/ FromSliceMulti
SpecRuns == InitRuns /\ [][NextRuns]_vars

NextWs == SpaceOrComments \/ FromSlice \/ FromSliceMulti
SpecWs == InitWs /\ [][NextWs]_vars

NextLexer == UnquotedString \/ MustEscape \/ ToBytes \/ ToBytesMach \/ ToBytesHum
SpecLexer == InitEscape /\ [][NextLexer]_vars

NextParse == FromSlice \/ FromSliceAllowRemaining \/ FromSliceMulti
SpecParse == InitParse /\ [][NextParse]_vars

NextMulti == ToBytesMulti \/ FromSliceMulti
SpecMulti == InitMulti /\ [][NextMulti]_vars

NextRt == FromSlice \/ Rt
SpecRt == InitRt /\ [][NextRt]_vars

NextExtract == ExtractEnum \/ ExtractMap
SpecExtract == InitExtract /\ [][NextExtract]_vars

---------------------------------------------------------------------------
(* Properties. *)

Wrote(w) == pc \in WriterOps /\ writer = w
Reparsed(w) == pc = "from_slice" /\ writer = w
ReEmitted(w) == pc = "reemit" /\ writer = w

\* C1: plain round trip: parsing with from_slice what to_bytes wrote for a
\* tree succeeds, leaves nothing over and returns a tree equal to it.
PlainRoundTrip ==
    Reparsed("plain") =>
        result.kind = "Ok" /\ result.val = sexp /\ result.rest = <<>>

\* a list holding an atom with NUL and a digit, the empty atom and the
\* empty list was written plain and parsed back
PlainRoundTripWitness ==
    /\ Reparsed("plain")
    /\ sexp = List(<<Atom(<<0, 49>>), Atom(<<>>), List(<<>>)>>)
    /\ result.kind = "Ok"
    /\ result.val = sexp

\* C2: machine round trip: parsing with from_slice what to_bytes_mach wrote
\* for a tree succeeds and returns a tree equal to it, so that no two tokens
\* were glued together and none was split.
MachRoundTrip ==
    Reparsed("mach") =>
        result.kind = "Ok" /\ result.val = sexp /\ result.rest = <<>>

\* two unquoted atoms that would glue into the block-comment marker #| were
\* written next to each other, after a quoted atom, and parsed back
MachRoundTripWitness ==
    /\ Reparsed("mach")
    /\ sexp = List(<<Atom(<<SPACE>>), Atom(<<HASH>>), Atom(<<PIPE>>)>>)
    /\ buffer = <<LPAREN, DQUOTE, SPACE, DQUOTE, HASH, SPACE, PIPE, RPAREN>>
    /\ result.val = sexp

\* C3: human round trip: parsing with from_slice what to_bytes_hum wrote for
\* a tree succeeds and returns a tree equal to it, whatever line breaks and
\* indentation were written.
HumRoundTrip ==
    Reparsed("hum") =>
        result.kind = "Ok" /\ result.val = sexp /\ result.rest = <<>>

\* the output has a line break inside a nested list (a newline followed by
\* at least two spaces of indentation) and was parsed back
HumRoundTripWitness ==
    /\ Reparsed("hum")
    /\ \E i \in 1..(Len(buffer) - 2) :
           buffer[i] = LF /\ buffer[i + 1] = SPACE /\ buffer[i + 2] = SPACE
    /\ result.kind = "Ok"
    /\ result.val = sexp

---------------------------------------------------------------------------
(* Lines and nodes of what write_hum wrote (buffer, hum_log). *)

\* a line is named by the offset it starts after: 0, or a newline's position
LineStarts == {0} \cup {i \in 1..Len(buffer) : buffer[i] = LF}

\* position of the last byte of the line starting after offset a
LineEnd(a) ==
    LET nls == {i \in (a + 1)..Len(buffer) : buffer[i] = LF}
    IN IF nls = {} THEN Len(buffer) ELSE Least(nls) - 1

LineLen(a) == LineEnd(a) - a

\* number of closing parentheses that end the line
TrailingClosers(a) ==
    LET others == {i \in (a + 1)..LineEnd(a) : buffer[i] # RPAREN}
    IN IF others = {} THEN LineLen(a)
       ELSE LineEnd(a) - (CHOOSE i \in others : \A j \in others : j <= i)

\* the nodes of the tree are the "atom" and "open" entries of the log; the
\* positions of the first and last byte of node i
NodeEntries == {i \in DOMAIN hum_log : hum_log[i].ev \in {"atom", "open"}}

NodeFirst(i) ==
    IF hum_log[i].ev = "atom" THEN hum_log[i].len - hum_log[i].size + 1
    ELSE hum_log[i].len

NodeLast(i) ==
    IF hum_log[i].ev = "atom" THEN hum_log[i].len
    ELSE hum_log[Least({j \in DOMAIN hum_log :
                           /\ j > i
                           /\ hum_log[j].ev = "close"
                           /\ hum_log[j].indent = hum_log[i].indent})].len

\* a child (any node other than a root list, which is no child and spans
\* every line) whose size exceeds the line width and which has at least one
\* byte on the line starting after a
OversizedChildOn(a) ==
    \E i \in NodeEntries :
        /\ hum_log[i].indent >= 1 \/ hum_log[i].ev = "atom"
        /\ hum_log[i].size > MAX_LINE_WIDTH
        /\ NodeFirst(i) <= LineEnd(a)
        /\ NodeLast(i) >= a + 1

\* C4 (as claimed): no line of write_hum's output is longer than the width
\* budget of 90 unless a child on that line has a size exceeding the budget.
HumWidthBound ==
    Wrote("hum") =>
        \A a \in LineStarts : LineLen(a) > MAX_LINE_WIDTH => OversizedChildOn(a)

\* C4 (amended): a child that is not the first of its list is kept on the
\* current line only if the column before its separator plus its size is at
\* most 90; the separator space and the closing parentheses are not counted,
\* so a line is at most 91 bytes plus the closing parentheses that end it,
\* unless a child with a byte on that line has a size exceeding 90.
HumWidthBoundAmended ==
    Wrote("hum") =>
        /\ \A i \in DOMAIN hum_log :
               hum_log[i].ev = "space" =>
                   hum_log[i].before + hum_log[i].size <= MAX_LINE_WIDTH
        /\ \A a \in LineStarts :
               LineLen(a) > MAX_LINE_WIDTH + 1 + TrailingClosers(a)
                   => OversizedChildOn(a)

\* a line of 92 bytes (91 and one closing parenthesis) was written after a
\* line break, in a tree none of whose children exceeds the budget
HumWidthBoundWitness ==
    /\ Wrote("hum")
    /\ \E a \in LineStarts :
           a > 0 /\ LineLen(a) = MAX_LINE_WIDTH + 2 /\ TrailingClosers(a) = 1
    /\ \A i \in NodeEntries :
           hum_log[i].indent >= 1 => hum_log[i].size <= MAX_LINE_WIDTH

\* C5: human-mode idempotence: parsing what to_bytes_hum wrote succeeds, and
\* writing the parsed tree with to_bytes_hum gives the same bytes again.
HumIdempotent ==
    /\ Reparsed("hum") => result.kind = "Ok"
    /\ ReEmitted("hum") => rebuffer = buffer

\* an output with a line break and a quoted atom was parsed and written again
HumIdempotentWitness ==
    /\ ReEmitted("hum")
    /\ \E i \in 1..Len(buffer) : buffer[i] = LF
    /\ \E i \in 1..Len(buffer) : buffer[i] = DQUOTE
    /\ rebuffer = buffer

---------------------------------------------------------------------------
(* What write_mach is to write, stated on the tree. *)

\* the atom is written without quotes
Unquoted(s) == IsAtom(s) /\ ~must_escape(s.atom)

RECURSIVE MachExpected(_)
RECURSIVE MachExpectedElems(_, _)
\* elements from index i on: one space exactly between two unquoted atoms
MachExpectedElems(l, i) ==
    IF i > Len(l) THEN <<>>
    ELSE (IF i > 1 /\ Unquoted(l[i - 1]) /\ Unquoted(l[i]) THEN <<SPACE>> ELSE <<>>)
             \o MachExpected(l[i]) \o MachExpectedElems(l, i + 1)

MachExpected(s) ==
    IF IsAtom(s)
    THEN IF must_escape(s.atom) THEN write_escaped(s.atom, <<>>) ELSE s.atom
    ELSE <<LPAREN>> \o MachExpectedElems(s.list, 1) \o <<RPAREN>>

\* C6: machine-mode minimality and safety: write_mach writes one space
\* exactly between two consecutive children of a list that are both unquoted
\* atoms and no separator anywhere else (none next to a quoted atom or a
\* parenthesis), and the glue flag is false after every list open, list
\* close and quoted atom and true after every unquoted atom.
MachMinimalAndSafe ==
    Wrote("mach") =>
        /\ buffer = MachExpected(sexp)
        /\ \A i \in DOMAIN mach_log :
               LET e == mach_log[i] IN
               /\ e.tok \in {"open", "close", "quoted"} => e.flag = FALSE
               /\ e.tok = "unquoted" =>
                      /\ e.flag = TRUE
                      /\ i > 1 => mach_log[i - 1].tok # "unquoted"
               /\ e.tok = "space" =>
                      /\ i > 1 /\ mach_log[i - 1].tok = "unquoted"
                      /\ i < Len(mach_log) /\ mach_log[i + 1].tok = "unquoted"
                      /\ buffer[e.len] = SPACE
                      /\ buffer[e.len - 1] \notin {SPACE, DQUOTE, LPAREN, RPAREN}
                      /\ buffer[e.len + 1] \notin {SPACE, DQUOTE, LPAREN, RPAREN}

\* (a #" "()a) was written: a space between the two unquoted atoms, none
\* around the quoted atom and the empty list
MachMinimalAndSafeWitness ==
    /\ Wrote("mach")
    /\ sexp = List(<<Atom(<<97>>), Atom(<<HASH>>), Atom(<<SPACE>>)>>)
    /\ buffer = <<LPAREN, 97, SPACE, HASH, DQUOTE, SPACE, DQUOTE, RPAREN>>
    /\ \E i \in DOMAIN mach_log : mach_log[i].tok = "space"

---------------------------------------------------------------------------
(* The escape policy, stated on the bytes. *)

NeedsQuote(b) ==
    \/ b = <<>>
    \/ \E i \in 1..Len(b) :
           b[i] <= 32 \/ b[i] >= 127
               \/ b[i] \in {DQUOTE, LPAREN, RPAREN, SEMI, BACKSLASH}
    \/ \E i \in 1..(Len(b) - 1) :
           \/ b[i] = HASH /\ b[i + 1] = PIPE
           \/ b[i] = PIPE /\ b[i + 1] = HASH

\* C7: escape correctness: each writer writes an atom as its raw bytes iff
\* must_escape is false for it and otherwise as write_escaped's double-quoted
\* text; the parser's quoted-atom reader decodes that text to exactly the
\* original bytes, and from_slice returns the atom.
EscapeCorrect ==
    /\ pc \in WriterOps =>
           /\ must_escape(sexp.atom) => buffer = write_escaped(sexp.atom, <<>>)
           /\ ~must_escape(sexp.atom) => buffer = sexp.atom
           /\ (buffer = sexp.atom) <=> ~must_escape(sexp.atom)
    /\ pc = "write_escaped" =>
           /\ Len(buffer) >= 2
           /\ buffer[1] = DQUOTE
           /\ buffer[Len(buffer)] = DQUOTE
    /\ pc = "quoted_atom" =>
           result.kind = "Ok" /\ result.val = sexp.atom /\ result.rest = <<>>
    /\ pc = "from_slice" =>
           result.kind = "Ok" /\ result.val = sexp

\* NUL followed by the digit 1 and a byte >= 127 was written as "\0001\255"
\* and decoded back
EscapeCorrectWitness ==
    /\ pc = "quoted_atom"
    /\ sexp = Atom(<<0, 49, 255>>)
    /\ buffer = <<DQUOTE, BACKSLASH, 48, 48, 48, 49, BACKSLASH, 50, 53, 53, DQUOTE>>
    /\ result.val = <<0, 49, 255>>

\* C8: must_escape is true exactly for the empty string, a string with a
\* byte in 0..32 or 127..255 or one of " ( ) ; \, and a string containing #|
\* or |#; the atom #| is written quoted by every writer.
MustEscapeExact ==
    /\ pc = "must_escape" => result.val = NeedsQuote(sexp.atom)
    /\ pc \in WriterOps /\ sexp = Atom(<<HASH, PIPE>>) =>
           buffer = <<DQUOTE, HASH, PIPE, DQUOTE>>

\* must_escape answered true for |# (and each of its bytes alone is safe)
MustEscapeExactWitness ==
    /\ pc = "must_escape"
    /\ sexp = Atom(<<PIPE, HASH>>)
    /\ result.val = TRUE
    /\ ~NeedsQuote(<<PIPE>>) /\ ~NeedsQuote(<<HASH>>)

---------------------------------------------------------------------------
(* The parser's entry points on raw input. *)

ParserOps == {"from_slice", "from_slice_allow_remaining", "from_slice_multi"}

\* C9: errors are values: no entry point panics, whatever the input.
NeverPanics ==
    pc \in ParserOps => result.kind # "Panic"

\* res, what from_slice returned, against r, what the single-sexp parse
\* returns, and m, what from_slice_multi returns, for the same input
StrictOn(res, r, m) ==
    /\ res.kind = "Ok" =>
           /\ r.kind = "Ok" /\ r.rest = <<>> /\ r.val = res.val
           /\ m.kind = "Ok" /\ m.val = <<res.val>>
    /\ r.kind = "Ok" /\ Len(r.rest) > 0 =>
           /\ res.kind = "Failure" /\ res.code = "Eof"
           /\ res.rest = r.rest
           /\ res.val = <<>>

\* C10: from_slice is strict: it returns a tree only when the single-sexp
\* parse leaves no byte over (and then from_slice_multi returns that one
\* tree), and fails with the trailing-data failure, without a tree, whenever
\* a byte is left; "(a b c)(d e)" fails while from_slice_multi returns two
\* lists.
FromSliceStrict ==
    /\ pc = "from_slice" /\ writer = "none" =>
           StrictOn(result, from_slice_allow_remaining(buffer), from_slice_multi(buffer))
    /\ pc = "from_slice_multi" /\ buffer = TwoLists =>
           /\ result.kind = "Ok"
           /\ result.val = <<List(<<Atom(<<97>>), Atom(<<98>>), Atom(<<99>>)>>),
                             List(<<Atom(<<100>>), Atom(<<101>>)>>)>>

\* from_slice failed on "(a b c)(d e)" with "(d e)" left over
FromSliceStrictWitness ==
    /\ pc = "from_slice"
    /\ buffer = TwoLists
    /\ result.kind = "Failure"
    /\ result.rest = <<LPAREN, 100, SPACE, 101, RPAREN>>

---------------------------------------------------------------------------
(* from_slice_allow_remaining against from_slice. *)

\* the input without its last n bytes, and its last n bytes
DropLast(input, n) == SubSeq(input, 1, Len(input) - n)
TakeLast(input, n) == SubSeq(input, Len(input) - n + 1, Len(input))

\* r is what from_slice_allow_remaining returned for input, res what
\* from_slice returns for it, pre what from_slice returns for the input
\* without the bytes r left over
AllowRemainingOn(input, r, res, pre) ==
    /\ r.kind = "Ok" =>
           /\ Len(r.rest) <= Len(input)
           /\ r.rest = TakeLast(input, Len(r.rest))
           /\ Len(r.rest) > 0 => r.rest[1] \notin {SPACE, TAB, CR, LF, SEMI}
           /\ pre.kind = "Ok" /\ pre.val = r.val
           /\ res.kind = "Ok" <=> r.rest = <<>>
           /\ res.kind = "Ok" => res.val = r.val
    /\ r.kind # "Ok" => res = r

\* C11: from_slice_allow_remaining makes the parse of from_slice and differs
\* only on leftovers: when it returns (r, T), r is the suffix of the input
\* after the first sexp and its trailing blanks and comments (the input
\* without r parses to T; r starts with no blank and no ';'), from_slice
\* returns T iff r is empty, and when it fails from_slice fails the same way.
AllowRemainingSameParse ==
    pc = "from_slice_allow_remaining" =>
        AllowRemainingOn(buffer, result, from_slice(buffer),
                         from_slice(DropLast(buffer, Len(result.rest))))

\* "a ;a\n a" was parsed to the atom a with the last a left over
AllowRemainingSameParseWitness ==
    /\ pc = "from_slice_allow_remaining"
    /\ buffer = <<97, SPACE, SEMI, 97, LF, SPACE, 97>>
    /\ result.kind = "Ok"
    /\ result.val = Atom(<<97>>)
    /\ result.rest = <<97>>

---------------------------------------------------------------------------
(* Sequences of trees. *)

\* the plain renderings of the trees of S from the i-th on, joined by one
\* space
RECURSIVE JoinedFrom(_, _)
JoinedFrom(S, i) ==
    IF i > Len(S) THEN <<>>
    ELSE IF i = Len(S) THEN to_bytes(S[i])
    ELSE to_bytes(S[i]) \o <<SPACE>> \o JoinedFrom(S, i + 1)

\* C12: multi round trip: to_bytes_multi of a sequence of trees is their
\* plain renderings joined by exactly one space, and from_slice_multi of it
\* returns the sequence, tree by tree and in order; the empty sequence is
\* written as the empty input, which from_slice_multi parses to the empty
\* sequence.
MultiRoundTrip ==
    /\ pc = "to_bytes_multi" => buffer = JoinedFrom(sexps, 1)
    /\ pc = "from_slice_multi" /\ writer = "multi" =>
           /\ result.kind = "Ok"
           /\ result.val = sexps
           /\ result.rest = <<>>
           /\ sexps = <<>> => buffer = <<>>

\* the atoms # and | and the empty list were written as "# | ()" and read
\* back as three trees
MultiRoundTripWitness ==
    /\ pc = "from_slice_multi"
    /\ writer = "multi"
    /\ sexps = <<Atom(<<HASH>>), Atom(<<PIPE>>), List(<<>>)>>
    /\ buffer = <<HASH, SPACE, PIPE, SPACE, LPAREN, RPAREN>>
    /\ result.val = sexps

---------------------------------------------------------------------------
(* Unbalanced inputs. *)

\* the parentheses of the input from index i on, read at nesting depth in
\* mode "code", "quoted" (inside a quoted atom) or "comment", are
\* unbalanced: a ')' at depth 0, or a depth above 0 when the input runs out
RECURSIVE UnbalancedFrom(_, _, _, _)
UnbalancedFrom(input, i, depth, mode) ==
    IF i > Len(input) THEN depth > 0
    ELSE IF mode = "quoted"
    THEN IF input[i] = BACKSLASH THEN UnbalancedFrom(input, i + 2, depth, mode)
         ELSE IF input[i] = DQUOTE THEN UnbalancedFrom(input, i + 1, depth, "code")
         ELSE UnbalancedFrom(input, i + 1, depth, mode)
    ELSE IF mode = "comment"
    THEN UnbalancedFrom(input, i + 1, depth,
                        IF input[i] \in {CR, LF} THEN "code" ELSE mode)
    ELSE IF input[i] = LPAREN THEN UnbalancedFrom(input, i + 1, depth + 1, mode)
    ELSE IF input[i] = RPAREN
    THEN depth = 0 \/ UnbalancedFrom(input, i + 1, depth - 1, mode)
    ELSE UnbalancedFrom(input, i + 1, depth,
                        IF input[i] = DQUOTE THEN "quoted"
                        ELSE IF input[i] = SEMI THEN "comment" ELSE mode)

Unbalanced(input) == UnbalancedFrom(input, 1, 0, "code")

\* C13: no partial results on unbalanced input: when the parentheses of the
\* input outside quoted atoms and comments are unbalanced, from_slice and
\* from_slice_multi return an error.
UnbalancedIsError ==
    pc \in {"from_slice", "from_slice_multi"} /\ Unbalanced(buffer) =>
        result.kind \in {"Error", "Failure"}

\* the part of C13 that holds: no tree and no sequence of trees is returned
\* for an unbalanced input
UnbalancedNoTree ==
    pc \in {"from_slice", "from_slice_multi"} /\ Unbalanced(buffer) =>
        result.kind # "Ok"

\* from_slice_multi parsed a first sexp of "a (a" and returned an error
UnbalancedNoTreeWitness ==
    /\ pc = "from_slice_multi"
    /\ buffer = <<97, SPACE, LPAREN, 97>>
    /\ Unbalanced(buffer)
    /\ result.kind = "Failure"

---------------------------------------------------------------------------
(* The plain format, stated on the tree. *)

RECURSIVE PlainExpected(_)
RECURSIVE PlainExpectedElems(_, _)
\* the elements of l from the i-th on, a space before each but the first
PlainExpectedElems(l, i) ==
    IF i > Len(l) THEN <<>>
    ELSE (IF i > 1 THEN <<SPACE>> ELSE <<>>)
             \o PlainExpected(l[i]) \o PlainExpectedElems(l, i + 1)

PlainExpected(s) ==
    IF IsAtom(s)
    THEN IF NeedsQuote(s.atom) THEN write_escaped(s.atom, <<>>) ELSE s.atom
    ELSE <<LPAREN>> \o PlainExpectedElems(s.list, 1) \o <<RPAREN>>

\* w holds no blank next to a parenthesis or to another blank, and no blank
\* other than the space
NoSpareBlank(w) ==
    /\ \A i \in 1..Len(w) : w[i] \notin {TAB, CR, LF}
    /\ Len(w) > 0 => w[1] # SPACE /\ w[Len(w)] # SPACE
    /\ \A i \in 1..(Len(w) - 1) :
           /\ w[i] = SPACE => w[i + 1] \notin {SPACE, RPAREN}
           /\ w[i] = LPAREN => w[i + 1] # SPACE

\* C14: plain write format: write renders an atom as its bytes, quoted if
\* needed, and a list as '(' followed by the renderings of its children in
\* order, separated by exactly one space, followed by ')'; no other blank is
\* written outside quoted atoms; the empty list is "()" and the tree parsed
\* from "( ATOM)" is written as "(ATOM)".
PlainFormat ==
    pc = "rt" =>
        /\ rebuffer = PlainExpected(result.val)
        /\ (\A i \in 1..Len(rebuffer) : rebuffer[i] # DQUOTE) => NoSpareBlank(rebuffer)
        /\ result.val = List(<<>>) => rebuffer = <<LPAREN, RPAREN>>
        /\ buffer = <<LPAREN, SPACE, 65, 84, 79, 77, RPAREN>> =>
               rebuffer = <<LPAREN, 65, 84, 79, 77, RPAREN>>

\* "( ATOM)" was parsed and written as "(ATOM)"
PlainFormatWitness ==
    /\ pc = "rt"
    /\ buffer = <<LPAREN, SPACE, 65, 84, 79, 77, RPAREN>>
    /\ result.val = List(<<Atom(<<65, 84, 79, 77>>)>>)
    /\ rebuffer = <<LPAREN, 65, 84, 79, 77, RPAREN>>

---------------------------------------------------------------------------
(* The conversion helpers. *)

\* l without its first element
Tail1(l) == [i \in 1..(Len(l) - 1) |-> l[i + 1]]

\* the four cases of a tree seen as a constructor application
EnumCases(s) ==
    <<IsAtom(s),
      ~IsAtom(s) /\ Len(s.list) >= 1 /\ IsAtom(s.list[1]),
      s = List(<<>>),
      ~IsAtom(s) /\ Len(s.list) >= 1 /\ ~IsAtom(s.list[1])>>

\* C15: extract_enum returns (atom bytes, no arguments) for an atom, (head
\* atom bytes, the remaining elements in order) for a non-empty list whose
\* first element is an atom, ExpectedConstructorGotEmptyList for the empty
\* list and ExpectedConstructorGotListInList when the first element is a
\* list; every tree is in exactly one of the four cases.
ExtractEnumCases ==
    pc = "extract_enum" =>
        LET cases == EnumCases(sexp) IN
        /\ Cardinality({i \in 1..4 : cases[i]}) = 1
        /\ cases[1] => result.kind = "Ok" /\ result.val = <<sexp.atom, <<>>>>
        /\ cases[2] => /\ result.kind = "Ok"
                       /\ result.val = <<sexp.list[1].atom, Tail1(sexp.list)>>
        /\ cases[3] => /\ result.kind = "Err"
                       /\ result.code = "ExpectedConstructorGotEmptyList"
                       /\ result.val.type_ \in TypeNames
        /\ cases[4] => /\ result.kind = "Err"
                       /\ result.code = "ExpectedConstructorGotListInList"
                       /\ result.val.type_ \in TypeNames

\* the constructor a was read with the empty atom and the empty list as its
\* arguments
ExtractEnumCasesWitness ==
    /\ pc = "extract_enum"
    /\ sexp = List(<<Atom(<<97>>), Atom(<<>>), List(<<>>)>>)
    /\ result.kind = "Ok"
    /\ result.val = <<<<97>>, <<Atom(<<>>), List(<<>>)>>>>

\* e is a two-element list whose first element is an atom
IsPair(e) == ~IsAtom(e) /\ Len(e.list) = 2 /\ IsAtom(e.list[1])

\* the i-th element of l keeps extract_map from succeeding
Offending(l, i) ==
    \/ ~IsPair(l[i])
    \/ \E j \in 1..(i - 1) : IsPair(l[j]) /\ l[j].list[1].atom = l[i].list[1].atom

\* the error of the offending element e, relative to the type name
OffenceOf(e, res) ==
    /\ res.kind = "Err"
    /\ res.val.type_ \in TypeNames
    /\ IsAtom(e) => res.code = "ExpectedPairForMapGotAtom"
    /\ ~IsAtom(e) /\ ~IsPair(e) =>
           res.code = "ExpectedPairForMapGotList" /\ res.val.list_len = Len(e.list)
    /\ IsPair(e) =>
           /\ res.code = "DuplicateKeyInMap"
           /\ res.val.key.tag = "Some"
           /\ (\A i \in 1..Len(e.list[1].atom) : e.list[1].atom[i] < 128) =>
                  res.val.key.v = e.list[1].atom

\* C16: extract_map succeeds iff every element of the list is a two-element
\* list whose first element is an atom and the keys are pairwise distinct;
\* the map then has one entry per element, binding each key to the second
\* element of its pair.  Otherwise it returns the error of the first
\* offending element: ExpectedPairForMapGotAtom for an atom,
\* ExpectedPairForMapGotList with the length for a list that is no such
\* pair, DuplicateKeyInMap with the key for a repeated key.
ExtractMapCases ==
    pc = "extract_map" =>
        LET bad == {i \in 1..Len(sexps) : Offending(sexps, i)} IN
        /\ result.kind = "Ok" <=> bad = {}
        /\ bad = {} =>
               /\ result.val = {<<sexps[i].list[1].atom, sexps[i].list[2]>> :
                                   i \in 1..Len(sexps)}
               /\ Cardinality(result.val) = Len(sexps)
        /\ bad # {} => OffenceOf(sexps[Least(bad)], result)

\* the second pair with the key a was reported as a duplicate, although an
\* atom follows it
ExtractMapCasesWitness ==
    /\ pc = "extract_map"
    /\ sexps = <<Pair(<<97>>, Atom(<<49>>)), Pair(<<97>>, List(<<>>)), Atom(<<97>>)>>
    /\ result.code = "DuplicateKeyInMap"
    /\ result.val.key = Some(<<97>>)

\* the index, from 1, of the first backslash of b; 0 when b has none
FirstBackslash(b) ==
    LET at_ == {i \in 1..Len(b) : b[i] = BACKSLASH}
    IN IF at_ = {} THEN 0 ELSE Least(at_)

\* b is a quoted atom with one escape: a quote, bytes without a quote, the
\* backslash and the byte after it, bytes without quote and backslash, a quote
OneEscape(b) ==
    /\ Len(b) >= 4 /\ b[1] = DQUOTE /\ b[Len(b)] = DQUOTE
    /\ FirstBackslash(b) > 0 /\ FirstBackslash(b) + 1 < Len(b)
    /\ \A j \in 2..(FirstBackslash(b) - 1) : b[j] # DQUOTE
    /\ \A j \in (FirstBackslash(b) + 2)..(Len(b) - 1) :
           b[j] # DQUOTE /\ b[j] # BACKSLASH

EscPre(b) == SubSeq(b, 2, FirstBackslash(b) - 1)
EscChar(b) == b[FirstBackslash(b) + 1]
EscTail(b) == SubSeq(b, FirstBackslash(b) + 2, Len(b) - 1)
DropFirst(s, n) == SubSeq(s, n + 1, Len(s))

\* the one escape of b is a backslash and three decimal digits
IsDecimalEscape(b) ==
    /\ OneEscape(b)
    /\ Len(EscTail(b)) >= 2
    /\ EscChar(b) \in 48..57 /\ EscTail(b)[1] \in 48..57 /\ EscTail(b)[2] \in 48..57

DecimalValue(b) ==
    100 * (EscChar(b) - 48) + 10 * (EscTail(b)[1] - 48) + (EscTail(b)[2] - 48)

\* from_slice returned the atom whose bytes are: what precedes the decimal
\* escape, one byte of value v, and what follows the three digits
DecimalDecodedAs(b, v, res) ==
    /\ res.kind = "Ok"
    /\ res.val = Atom(EscPre(b) \o <<v>> \o DropFirst(EscTail(b), 2))

\* C17: inside a quoted atom, a backslash followed by three decimal digits
\* d1 d2 d3 consumes those four bytes and emits one byte of value
\* 100*d1 + 10*d2 + d3, for every choice of the three digits.
DecimalEscapeExact ==
    pc = "from_slice" /\ IsDecimalEscape(buffer) =>
        DecimalDecodedAs(buffer, DecimalValue(buffer), result)

\* The same for the escapes up to \255 only, and the example of the
\* tests: \000A\123 decodes to the bytes 0, 'A', 0x7B.
DecimalEscapeInRange ==
    pc = "from_slice" =>
        /\ IsDecimalEscape(buffer) /\ DecimalValue(buffer) <= 255 =>
               DecimalDecodedAs(buffer, DecimalValue(buffer), result)
        /\ buffer = Quoted(<<BACKSLASH, 48, 48, 48, 65, BACKSLASH, 49, 50, 51>>) =>
               result.kind = "Ok" /\ result.val = Atom(<<0, 65, 123>>)

\* A\255 was followed by the digit 1 and decoded to 'A', 255, '1'
DecimalEscapeInRangeWitness ==
    /\ pc = "from_slice"
    /\ buffer = Quoted(<<65, BACKSLASH, 50, 53, 53, 49>>)
    /\ result.kind = "Ok"
    /\ result.val = Atom(<<65, 255, 49>>)

IsHex(c) == c \in (48..57) \cup (65..70) \cup (97..102)
HexValue(c) == IF c \in 48..57 THEN c - 48 ELSE IF c \in 65..70 THEN c - 55 ELSE c - 87

\* s without the spaces and tabs it begins with
RECURSIVE DropBlanks(_)
DropBlanks(s) ==
    IF Len(s) > 0 /\ (s[1] = SPACE \/ s[1] = TAB) THEN DropBlanks(Tail(s)) ELSE s

\* the bytes that backslash, c and the escape-free bytes tail decode to
Decoded(c, tail) ==
    IF c = 110 THEN <<10>> \o tail
    ELSE IF c = 114 THEN <<13>> \o tail
    ELSE IF c = 116 THEN <<9>> \o tail
    ELSE IF c = 98 THEN <<8>> \o tail
    ELSE IF c = BACKSLASH \/ c = DQUOTE \/ c = SQUOTE THEN <<c>> \o tail
    ELSE IF c = 120 /\ Len(tail) >= 2 /\ IsHex(tail[1]) /\ IsHex(tail[2])
    THEN <<16 * HexValue(tail[1]) + HexValue(tail[2])>> \o DropFirst(tail, 2)
    ELSE IF c = LF THEN DropBlanks(tail)
    ELSE <<BACKSLASH, c>> \o tail

\* C18: inside a quoted atom, \n \r \t \b decode to 10, 13, 9, 8; a
\* backslash before a backslash or a quote decodes to that byte; \xHH
\* decodes to 16*H1 + H2, for hex digits of either case; backslash-newline
\* and the spaces and tabs that follow it decode to nothing; any other
\* backslash-c that is no decimal escape (\x without two hex digits and a
\* digit without two more digits among them) decodes to the backslash and
\* c, the decoding goes on after c, and the parse does not fail.
NonDecimalEscapes ==
    pc = "from_slice" =>
        /\ OneEscape(buffer) /\ ~IsDecimalEscape(buffer) =>
               /\ result.kind = "Ok"
               /\ result.val =
                      Atom(EscPre(buffer) \o Decoded(EscChar(buffer), EscTail(buffer)))
        /\ buffer = Quoted(<<BACKSLASH, 48, 48, 48, 65, BACKSLASH, 120, 55, 66,
                             BACKSLASH, 120, 57, 57, BACKSLASH, 120, 57, 90>>) =>
               /\ result.kind = "Ok"
               /\ result.val = Atom(<<0, 65, 123, 153, BACKSLASH, 120, 57, 90>>)

\* A\xfA was followed by Z and decoded to 'A', 0xFA, 'Z'
NonDecimalEscapesWitness ==
    /\ pc = "from_slice"
    /\ buffer = Quoted(<<65, BACKSLASH, 120, 102, 65, 90>>)
    /\ result.kind = "Ok"
    /\ result.val = Atom(<<65, 250, 90>>)

Delimiters == {SEMI, LPAREN, RPAREN, DQUOTE, SPACE, TAB, CR, LF}

\* the length of the longest prefix of b that holds no delimiter
RunLength(b) ==
    LET stops == {i \in 1..Len(b) : b[i] \in Delimiters}
    IN IF stops = {} THEN Len(b) ELSE Least(stops) - 1

RECURSIVE HasEmptyAtom(_)
HasEmptyAtom(t) ==
    IF IsAtom(t) THEN t.atom = <<>>
    ELSE \E i \in 1..Len(t.list) : HasEmptyAtom(t.list[i])

\* C19: when the next byte is not a double quote, the atom read is the
\* longest run of bytes with none of ; ( ) " space tab CR LF, taken as it
\* is (a backslash is a byte like any other), and the parse goes on after
\* the run; so an empty atom in a parsed tree was written in quoted form.
UnquotedAtoms ==
    /\ pc = "atom" /\ result.kind = "Ok" /\ (Len(buffer) = 0 \/ buffer[1] # DQUOTE) =>
           /\ RunLength(buffer) > 0
           /\ result.val = Atom(SubSeq(buffer, 1, RunLength(buffer)))
           /\ result.rest = DropFirst(buffer, RunLength(buffer))
    /\ pc \in {"from_slice", "from_slice_allow_remaining"} /\ result.kind = "Ok"
       /\ HasEmptyAtom(result.val) =>
           \E i \in 1..Len(buffer) : buffer[i] = DQUOTE
    /\ pc = "from_slice_multi" /\ result.kind = "Ok" /\ HasEmptyAtom(List(result.val)) =>
           \E i \in 1..Len(buffer) : buffer[i] = DQUOTE

\* the run a\a was read up to the parenthesis, the backslash kept
UnquotedAtomsWitness ==
    /\ pc = "atom"
    /\ buffer = <<97, BACKSLASH, 97, LPAREN>>
    /\ result.kind = "Ok"
    /\ result.val = Atom(<<97, BACKSLASH, 97>>)
    /\ result.rest = <<LPAREN>>

\* the index, from 1, of the first block-comment marker of b; 0 without one
FirstMarker(b) ==
    LET at_ == {i \in 1..(Len(b) - 1) :
                   \/ b[i] = HASH /\ b[i + 1] = PIPE
                   \/ b[i] = PIPE /\ b[i + 1] = HASH}
    IN IF at_ = {} THEN 0 ELSE Least(at_)

\* the index of the first byte of the run that holds the byte at index i
RunStart(b, i) ==
    LET stops == {j \in 1..i : b[j] \in Delimiters}
    IN IF stops = {} THEN 1 ELSE (CHOOSE j \in stops : \A k \in stops : k <= j) + 1

\* opening minus closing parentheses among the first k bytes of b
Depth(b, k) ==
    Cardinality({j \in 1..k : b[j] = LPAREN}) - Cardinality({j \in 1..k : b[j] = RPAREN})

\* b has a marker, and what precedes the marker has neither a quote nor a
\* comment nor a parenthesis that closes nothing: from_slice_multi comes to
\* read the run with the marker
MarkerReadByMulti(b) ==
    /\ FirstMarker(b) > 0
    /\ \A j \in 1..(FirstMarker(b) - 1) : b[j] # DQUOTE /\ b[j] # SEMI
    /\ \A k \in 1..(RunStart(b, FirstMarker(b)) - 1) : Depth(b, k) >= 0

\* moreover no sexp is complete at top level before that run: from_slice
\* and from_slice_allow_remaining come to read it
MarkerReadBySingle(b) ==
    /\ MarkerReadByMulti(b)
    /\ \A k \in 1..(RunStart(b, FirstMarker(b)) - 1) :
           b[k] \notin {SPACE, TAB, CR, LF} => Depth(b, k) >= 1

\* the failure of unquoted_string_ on the run that holds the first marker
MarkerFailure(b, res) ==
    /\ res.kind = "Failure"
    /\ res.code = "Not"
    /\ res.rest = DropFirst(b, RunStart(b, FirstMarker(b)) - 1)

\* C20: when the parser reads an unquoted run that holds #| or |#, the
\* call fails with a failure, not a recoverable error, and returns no tree:
\* at top level, inside nested lists, and after sexps that from_slice_multi
\* has parsed; no combinator turns it into a shorter successful parse.
MarkersRejected ==
    /\ pc \in {"from_slice", "from_slice_allow_remaining"} /\ MarkerReadBySingle(buffer) =>
           MarkerFailure(buffer, result)
    /\ pc = "from_slice_multi" /\ MarkerReadByMulti(buffer) =>
           MarkerFailure(buffer, result)
    /\ pc = "atom" /\ FirstMarker(buffer) > 0 /\ RunStart(buffer, FirstMarker(buffer)) = 1 =>
           MarkerFailure(buffer, result)

\* from_slice_multi had parsed () and (a) when it failed on the run b#|b
MarkersRejectedWitness ==
    /\ pc = "from_slice_multi"
    /\ buffer = <<LPAREN, RPAREN, SPACE, LPAREN, 97, RPAREN, SPACE, 98, HASH, PIPE, 98>>
    /\ result.kind = "Failure"
    /\ result.rest = <<98, HASH, PIPE, 98>>

\* the index, from 1, of the first double quote of b; 0 when b has none
FirstQuote(b) ==
    LET at_ == {i \in 1..Len(b) : b[i] = DQUOTE}
    IN IF at_ = {} THEN 0 ELSE Least(at_)

\* no double quote ends the quoted atom whose body is b from index i on:
\* the byte after a backslash is part of its escape, whatever it is
RECURSIVE Unclosed(_, _)
Unclosed(b, i) ==
    IF i > Len(b) THEN TRUE
    ELSE IF b[i] = DQUOTE THEN FALSE
    ELSE IF b[i] = BACKSLASH THEN Unclosed(b, i + 2)
    ELSE Unclosed(b, i + 1)

\* the first double quote of b opens a quoted atom that the input does not
\* close, and what precedes it has neither a comment nor a block-comment
\* marker nor a parenthesis that closes nothing: from_slice_multi comes to
\* read that atom
UnterminatedReadByMulti(b) ==
    /\ FirstQuote(b) > 0
    /\ Unclosed(b, FirstQuote(b) + 1)
    /\ \A j \in 1..(FirstQuote(b) - 1) : b[j] # SEMI
    /\ FirstMarker(b) = 0 \/ FirstMarker(b) > FirstQuote(b)
    /\ \A k \in 1..(FirstQuote(b) - 1) : Depth(b, k) >= 0

\* moreover no sexp is complete at top level before it
UnterminatedReadBySingle(b) ==
    /\ UnterminatedReadByMulti(b)
    /\ \A k \in 1..(FirstQuote(b) - 1) :
           b[k] \notin {SPACE, TAB, CR, LF} => Depth(b, k) >= 1

\* the entry point at pc comes to read the unterminated atom of the input
UnterminatedRead ==
    \/ pc \in {"from_slice", "from_slice_allow_remaining"}
          /\ UnterminatedReadBySingle(buffer)
    \/ pc = "from_slice_multi" /\ UnterminatedReadByMulti(buffer)

\* C21: when the parser reads a quoted atom and the input ends before its
\* closing double quote, also right after a backslash, the call fails with
\* the failure of quoted_string (ErrorKind::Eof, on the bytes after the
\* opening quote) and returns no tree, wherever the atom is.
UnterminatedIsEofFailure ==
    UnterminatedRead =>
        /\ result.kind = "Failure"
        /\ result.code = "Eof"
        /\ result.rest = DropFirst(buffer, FirstQuote(buffer))

\* What holds of every unterminated quoted atom: no tree is returned, and
\* a call that returns at all returns that failure.
UnterminatedNoTree ==
    UnterminatedRead =>
        \/ result.kind = "Panic"
        \/ /\ result.kind = "Failure"
           /\ result.code = "Eof"
           /\ result.rest = DropFirst(buffer, FirstQuote(buffer))

\* from_slice_multi had parsed a when the input ended after "\
UnterminatedNoTreeWitness ==
    /\ pc = "from_slice_multi"
    /\ buffer = <<97, SPACE, DQUOTE, BACKSLASH>>
    /\ result.kind = "Failure"
    /\ result.rest = <<BACKSLASH>>

\* s without the space, tab, CR and LF bytes it begins with
RECURSIVE DropWhite(_)
DropWhite(s) ==
    IF Len(s) > 0 /\ s[1] \in {SPACE, TAB, CR, LF} THEN DropWhite(Tail(s)) ELSE s

\* after its leading blanks b ends or goes on with a closing parenthesis:
\* an entry point expects an atom there, and no byte can begin one
NoTokenAt(b) == DropWhite(b) = <<>> \/ DropWhite(b)[1] = RPAREN

EntryPoints == {"from_slice", "from_slice_allow_remaining", "from_slice_multi"}

\* C22: when an atom is expected and the unquoted scan matches zero bytes
\* (and no double quote follows), the parse fails with a failure, not a
\* recoverable error, of the kind of the empty atom (ErrorKind::NonEmpty),
\* and the entry point returns that error.
EmptyAtomIsHardFailure ==
    /\ pc = "atom" /\ RunLength(buffer) = 0
       /\ (Len(buffer) = 0 \/ buffer[1] # DQUOTE) =>
           result.kind = "Failure" /\ result.code = "NonEmpty"
    /\ pc \in EntryPoints /\ NoTokenAt(buffer) =>
           result.kind = "Failure" /\ result.code = "NonEmpty"

\* C22 as it holds: the error of the empty unquoted run is recoverable and
\* no entry point returns it.  The atom parser goes on to the quoted atom
\* and returns the recoverable error of char('"'), ErrorKind::Char, at the
\* same byte; from_slice and from_slice_allow_remaining return that kind of
\* error, from char('('), when no token begins after the leading blanks;
\* from_slice_multi ends its repetition there, and returns the empty
\* sequence at the end of the input and the failure of the left-over bytes
\* (ErrorKind::Eof) before a closing parenthesis.
EmptyAtomIsRecoverable ==
    /\ pc \in EntryPoints \cup {"atom"} => result.code # "NonEmpty"
    /\ pc = "atom" /\ RunLength(buffer) = 0
       /\ (Len(buffer) = 0 \/ buffer[1] # DQUOTE) =>
           result.kind = "Error" /\ result.code = "Char" /\ result.rest = buffer
    /\ pc \in {"from_slice", "from_slice_allow_remaining"} /\ NoTokenAt(buffer) =>
           /\ result.kind = "Error"
           /\ result.code = "Char"
           /\ result.rest = DropWhite(buffer)
    /\ pc = "from_slice_multi" /\ NoTokenAt(buffer) =>
           IF DropWhite(buffer) = <<>>
           THEN result.kind = "Ok" /\ result.val = <<>>
           ELSE /\ result.kind = "Failure"
                /\ result.code = "Eof"
                /\ result.rest = DropWhite(buffer)

\* from_slice found a closing parenthesis where a sexp was to begin
EmptyAtomIsRecoverableWitness ==
    /\ pc = "from_slice"
    /\ buffer = <<SPACE, RPAREN>>
    /\ result.kind = "Error"
    /\ result.code = "Char"
    /\ result.rest = <<RPAREN>>

\* runs of blanks, and comments ended by a line end, some with bytes that
\* are tokens elsewhere
WsRuns ==
    {<<SPACE>>, <<TAB>>, <<CR>>, <<LF>>, <<SPACE, LF, TAB, CR>>,
     <<SEMI, LF>>, <<SEMI, 97, DQUOTE, LPAREN, SEMI, CR>>,
     <<TAB, SEMI, RPAREN, BACKSLASH, LF, SPACE>>}

\* b with the run r put between its k-th byte and the next
Inserted(b, k, r) == SubSeq(b, 1, k) \o r \o DropFirst(b, k)

\* the first k bytes of b hold an even number of double quotes
OutsideQuotes(b, k) == Cardinality({i \in 1..k : b[i] = DQUOTE}) % 2 = 0

\* b has no backslash, and a semicolon only inside a quoted atom: its double
\* quotes open and close quoted atoms in turn, and it has no comment
PlainTokens(b) ==
    \A i \in 1..Len(b) :
        /\ b[i] # BACKSLASH
        /\ b[i] = SEMI => ~OutsideQuotes(b, i)

\* in such a b, the place after the k-th byte is before the first token,
\* after an opening or a closing parenthesis, or after an atom
TokenBoundary(b, k) ==
    /\ OutsideQuotes(b, k)
    /\ \/ k = 0
       \/ b[k] \in {LPAREN, RPAREN, DQUOTE}
       \/ b[k] \notin Delimiters /\ (k = Len(b) \/ b[k + 1] \in Delimiters)

\* C23: skipping blanks and comments never fails and leaves an input that
\* begins with another byte as it is; when an input parses to T, the input
\* with a run of space, tab, CR, LF, or a comment ended by a line end, put
\* before the first token, after an atom, after ( or after ), parses to the
\* same T; a semicolon inside a quoted atom starts no comment.
BlanksInsignificant ==
    /\ pc = "space_or_comments" =>
           /\ result.kind = "Ok"
           /\ result.val \o result.rest = buffer
           /\ (Len(buffer) = 0 \/ buffer[1] \notin {SPACE, TAB, CR, LF, SEMI}) =>
                  result.rest = buffer
    /\ pc = "from_slice" /\ result.kind = "Ok" /\ PlainTokens(buffer) =>
           \A k \in 0..Len(buffer) : \A r \in WsRuns :
               TokenBoundary(buffer, k) => from_slice(Inserted(buffer, k, r)) = result
    /\ pc = "from_slice_multi" /\ result.kind = "Ok" /\ PlainTokens(buffer) =>
           \A k \in 0..Len(buffer) : \A r \in WsRuns :
               TokenBoundary(buffer, k) => from_slice_multi(Inserted(buffer, k, r)) = result
    /\ pc = "from_slice" /\ buffer = Quoted(<<97, SEMI>>) =>
           result.kind = "Ok" /\ result.val = Atom(<<97, SEMI>>)

\* (a (a) ";") parsed to a list of three, the last the atom of a semicolon
BlanksInsignificantWitness ==
    /\ pc = "from_slice"
    /\ buffer = <<LPAREN, 97, SPACE, LPAREN, 97, RPAREN, SPACE, DQUOTE, SEMI, DQUOTE, RPAREN>>
    /\ result.kind = "Ok"
    /\ result.val = List(<<Atom(<<97>>), List(<<Atom(<<97>>)>>), Atom(<<SEMI>>)>>)
    /\ from_slice(Inserted(buffer, 6, <<SEMI, 97, DQUOTE, LPAREN, SEMI, CR>>)) = result

\* unquoted_string took the whole of the atom's bytes as one atom
AcceptedWhole == result.kind = "Ok" /\ result.val = sexp.atom /\ result.rest = <<>>

\* b is not empty and has no delimiter and no block-comment marker
OneRun(b) ==
    /\ b # <<>>
    /\ \A i \in 1..Len(b) : b[i] \notin Delimiters
    /\ \A i \in 1..(Len(b) - 1) :
           ~(b[i] = HASH /\ b[i + 1] = PIPE) /\ ~(b[i] = PIPE /\ b[i + 1] = HASH)

\* C24: a byte string is accepted by the lexer as one whole unquoted atom
\* if and only if must_escape is false for it, and each of the three
\* writers writes an atom without quotes if and only if must_escape is
\* false for it.
MustEscapeSharedByLexer ==
    /\ pc = "unquoted_string" => (AcceptedWhole <=> ~must_escape(sexp.atom))
    /\ pc \in WriterOps => (buffer = sexp.atom <=> ~must_escape(sexp.atom))

\* C24 as it holds: the writers write an atom without quotes if and only
\* if must_escape is false for it, and the lexer accepts every such atom as
\* one whole unquoted atom; the lexer does not consult must_escape, and
\* accepts every non-empty string without ; ( ) " space tab CR LF and
\* without #| and |#, among them strings with a backslash, a control byte
\* or a byte from 127 on, for which must_escape is true.
MustEscapeImpliesLexer ==
    /\ pc = "unquoted_string" =>
           /\ ~must_escape(sexp.atom) => AcceptedWhole
           /\ AcceptedWhole <=> OneRun(sexp.atom)
    /\ pc \in WriterOps => (buffer = sexp.atom <=> ~must_escape(sexp.atom))

\* the lexer took \n, a backslash and a letter, as one unquoted atom, and
\* must_escape is true for it
MustEscapeImpliesLexerWitness ==
    /\ pc = "unquoted_string"
    /\ sexp = Atom(<<BACKSLASH, 110>>)
    /\ AcceptedWhole
    /\ must_escape(sexp.atom)

---------------------------------------------------------------------------
(* The human writer, stated on the tree and on the bytes written. *)

\* the encoded form of an atom
Encoded(a) == IF NeedsQuote(a) THEN write_escaped(a, <<>>) ELSE a

RECURSIVE SizeOf(_)
RECURSIVE SizeOfElems(_, _)
SizeOfElems(l, i) == IF i > Len(l) THEN 0 ELSE SizeOf(l[i]) + SizeOfElems(l, i + 1)

\* the size of a tree: the length of the encoded form of an atom, and for a
\* list 2, the number of its children and the sizes of its children
SizeOf(t) ==
    IF IsAtom(t) THEN Len(Encoded(t.atom))
    ELSE 2 + Len(t.list) + SizeOfElems(t.list, 1)

RECURSIVE Preorder(_, _, _)
RECURSIVE PreorderElems(_, _, _)
PreorderElems(l, i, depth) ==
    IF i > Len(l) THEN <<>>
    ELSE Preorder(l[i], depth, i = 1) \o PreorderElems(l, i + 1, depth)

\* the nodes of a tree in the order they are written, each with its size,
\* its nesting depth and whether it is the first child of its list
Preorder(t, depth, first) ==
    <<[size |-> SizeOf(t), depth |-> depth, first |-> first]>>
        \o (IF IsAtom(t) THEN <<>> ELSE PreorderElems(t.list, 1, depth + 1))

\* the number of bytes between the last newline among the first n bytes of
\* the output and the n-th byte
ColumnAt(n) ==
    LET nls == {j \in 1..n : buffer[j] = LF}
    IN IF nls = {} THEN n ELSE n - (CHOOSE j \in nls : \A k \in nls : k <= j)

\* the rank of the node entry i of the log among the node entries
NodeRank(i) == Cardinality({j \in NodeEntries : j <= i})

\* the entry before the node entry i is the separator the break rule asks
\* for before a node of size n and depth d, written after the entry i - 2
SeparatedBy(i, n, d) ==
    /\ i > 2
    /\ IF ColumnAt(hum_log[i - 2].len) + n > MAX_LINE_WIDTH
       THEN /\ hum_log[i - 1].ev = "newline"
            /\ hum_log[i - 1].len = hum_log[i - 2].len + 1 + d
            /\ buffer[hum_log[i - 2].len + 1] = LF
            /\ \A j \in (hum_log[i - 2].len + 2)..hum_log[i - 1].len : buffer[j] = SPACE
            /\ hum_log[i - 1].col = d
       ELSE /\ hum_log[i - 1].ev = "space"
            /\ hum_log[i - 1].len = hum_log[i - 2].len + 1
            /\ buffer[hum_log[i - 1].len] = SPACE
            /\ hum_log[i - 1].col = ColumnAt(hum_log[i - 2].len) + 1

\* the node entry i is the node nd of the tree, written after what the
\* break rule asks for
NodeWritten(i, nd) ==
    /\ hum_log[i].size = nd.size
    /\ hum_log[i].indent = nd.depth
    /\ IF nd.first THEN i = 1 \/ hum_log[i - 1].ev = "open"
       ELSE SeparatedBy(i, nd.size, nd.depth)
    /\ hum_log[i].len = (IF i = 1 THEN 0 ELSE hum_log[i - 1].len)
                            + (IF hum_log[i].ev = "atom" THEN nd.size ELSE 1)

\* C25: write_hum gives an atom the size of its encoded form and a list
\* the size 2 + number of children + sizes of the children; before every
\* child of a list but the first it writes a newline and indent_level
\* spaces (the nesting depth of the child, 1 under the root list) and sets
\* the column to indent_level iff column + size of the child > 90, and one
\* space otherwise; nothing is written before the first child of a list.
HumBreakRule ==
    Wrote("hum") =>
        /\ Cardinality(NodeEntries) = Len(Preorder(sexp, 0, TRUE))
        /\ \A i \in NodeEntries : NodeWritten(i, Preorder(sexp, 0, TRUE)[NodeRank(i)])
        /\ \A i \in DOMAIN hum_log :
               hum_log[i].ev \in {"space", "newline"} =>
                   /\ i + 1 \in NodeEntries
                   /\ ~Preorder(sexp, 0, TRUE)[NodeRank(i + 1)].first

\* in ((A B)) with atoms of 45 bytes, B was written after a newline and two
\* spaces, and in another child list a space was written
HumBreakRuleWitness ==
    /\ Wrote("hum")
    /\ sexp = List(<<List(<<Atom(Rep(97, 45)), Atom(Rep(97, 45))>>)>>)
    /\ hum_log[4].ev = "newline" /\ hum_log[4].indent = 2
    /\ SubSeq(buffer, 48, 50) = <<LF, SPACE, SPACE>>
    /\ Len(buffer) = 97

NoNewline == \A i \in 1..Len(buffer) : buffer[i] # LF

\* C26: for every tree whose plain rendering has at most 90 bytes,
\* to_bytes_hum returns the bytes that to_bytes returns: write_hum writes
\* no newline.
HumEqualsPlainWhenShort ==
    Wrote("hum") /\ Len(to_bytes(sexp)) <= MAX_LINE_WIDTH =>
        buffer = to_bytes(sexp) /\ NoNewline

\* C26 as it holds: for every tree whose size, as write_hum computes it
\* (an atom: its encoded length; a list: 2 + number of children + sizes of
\* the children), is at most 90, to_bytes_hum returns the bytes that
\* to_bytes returns; and whatever the tree, the two are equal exactly when
\* write_hum writes no newline.  The size of a tree exceeds the length of
\* its plain rendering by the number of its non-empty lists.
HumEqualsPlainWhenSmall ==
    Wrote("hum") =>
        /\ SizeOf(sexp) <= MAX_LINE_WIDTH => buffer = to_bytes(sexp) /\ NoNewline
        /\ buffer = to_bytes(sexp) <=> NoNewline
        /\ sexp = List(<<List(<<Atom(<<102, 111, 111>>), Atom(<<98, 97, 114>>)>>),
                         List(<<Atom(<<98, 97, 122>>),
                                List(<<Atom(<<49>>), Atom(<<50>>), Atom(<<51>>)>>)>>)>>) =>
               buffer = <<40, 40, 102, 111, 111, 32, 98, 97, 114, 41, 32, 40, 98, 97,
                          122, 32, 40, 49, 32, 50, 32, 51, 41, 41, 41>>

\* a list of an atom of 44 bytes and the atom a, of size 49, was written on
\* one line of 48 bytes
HumEqualsPlainWhenSmallWitness ==
    /\ Wrote("hum")
    /\ sexp = List(<<Atom(Rep(97, 44)), Atom(<<97>>)>>)
    /\ SizeOf(sexp) = 49
    /\ buffer = to_bytes(sexp)
    /\ Len(buffer) = 48

\* the i-th byte of the output is a space of the indentation after a newline
InIndentation(i) ==
    /\ buffer[i] = SPACE
    /\ \E j \in 1..(i - 1) :
           buffer[j] = LF /\ \A k \in (j + 1)..i : buffer[k] = SPACE

Marked == [i \in 1..Len(buffer) |->
              [byte |-> IF buffer[i] = LF THEN SPACE ELSE buffer[i],
               indentation |-> InIndentation(i)]]

Kept(e) == ~e.indentation

\* the output with each newline and the indentation after it replaced by
\* one space
Collapsed ==
    LET kept == SelectSeq(Marked, Kept)
    IN [i \in 1..Len(kept) |-> kept[i].byte]

\* C27: replacing each newline with the indentation after it in what
\* to_bytes_hum returns by one space gives what to_bytes returns; a child
\* larger than the budget is written whole, and no atom is split.
HumSeparatorsOnly ==
    Wrote("hum") =>
        /\ Collapsed = to_bytes(sexp)
        /\ \A i \in NodeEntries :
               hum_log[i].ev = "atom" =>
                   \A j \in NodeFirst(i)..NodeLast(i) : buffer[j] # LF

\* the atom of 91 bytes was written whole on a line of its own after the
\* atom a
HumSeparatorsOnlyWitness ==
    /\ Wrote("hum")
    /\ sexp = List(<<Atom(<<97>>), Atom(Rep(97, MAX_LINE_WIDTH + 1))>>)
    /\ buffer = <<LPAREN, 97, LF, SPACE>> \o Rep(97, MAX_LINE_WIDTH + 1) \o <<RPAREN>>
    /\ Collapsed = to_bytes(sexp)

\* C28: after every token and every separator that write_hum writes,
\* already_written_on_line is the number of bytes written since the last
\* newline, or since the start of the output when there is none.
HumColumnCounter ==
    Wrote("hum") =>
        \A i \in DOMAIN hum_log :
            /\ hum_log[i].col = ColumnAt(hum_log[i].len)
            /\ hum_log[i].before = (IF i = 1 THEN 0 ELSE hum_log[i - 1].col)

\* after a newline and two spaces the counter was 2, and 47 after the atom
HumColumnCounterWitness ==
    /\ Wrote("hum")
    /\ sexp = List(<<List(<<Atom(Rep(97, 45)), Atom(Rep(97, 45))>>)>>)
    /\ hum_log[4].ev = "newline" /\ hum_log[4].col = 2
    /\ hum_log[5].ev = "atom" /\ hum_log[5].col = 47
    /\ ColumnAt(hum_log[5].len) = 47

---------------------------------------------------------------------------
(* The loops of the parser return.                                         *)

StillRunning == result.kind = "Running"

\* what the function of the loop returns for the whole input
LoopReturns ==
    IF pc = "space_or_comments" THEN space_or_comments(buffer)
    ELSE IF pc = "unquoted_string_" THEN unquoted_string_(buffer)
    ELSE IF pc = "quoted_string" THEN quoted_string(buffer)
    ELSE IF pc = "from_slice_multi" THEN from_slice_multi(buffer)
    ELSE sexp_in_list(buffer)

\* a loop that has ended left what its function returns for the input
StepsAgree == (pc \in Loops /\ ~StillRunning) => result = LoopReturns

StepsAgreeWitness ==
    /\ pc = "sexp_in_list" /\ result.kind = "Ok"
    /\ ~IsAtom(result.val) /\ Len(result.val.list) = 3

\* every turn that does not return moves the index forward, and the index
\* never passes the end of the input
LoopsAdvance ==
    [][(pc \in Loops /\ result'.kind = "Running")
          => (result'.val.index > result.val.index
              /\ result'.val.index <= Len(buffer))]_vars

\* a successful single-sexp parse consumes at least one byte, wherever in
\* the input it starts, so many0 never reports a turn without progress
SexpConsumes ==
    /\ \A k \in 0..Len(buffer) :
           LET r == sexp_no_leading_blank(take_split(buffer, k).rest)
           IN r.kind = "Ok" => Len(r.rest) < Len(buffer) - k
    /\ result.code # "Many0"

\* a loop that runs has consumed no more than the input
LoopsBounded ==
    (pc \in Loops /\ StillRunning) =>
        /\ result.val.index \in 0..Len(buffer)
        /\ result.rest = take_split(buffer, result.val.index).rest

\* C29: every loop of the parser advances until it returns, and every entry
\* point eventually returns a result or an error
ParsingReturns ==
    /\ (pc \in Loops /\ StillRunning) => result.val.index \in 0..Len(buffer)
    /\ (pc \in Loops /\ ~StillRunning) => result.kind \in {"Ok", "Error", "Failure"}

\* whatever the build, a loop that has ended returned, or the thread
\* panicked on the overflow of a decimal escape above 255
ParsingEnds ==
    (pc \in Loops /\ ~StillRunning) =>
        \/ result.kind \in {"Ok", "Error", "Failure"}
        \/ result = Panic /\ overflow_checks

\* the repetition of from_slice_multi took two turns and returned two trees
ParsingEndsWitness ==
    pc = "from_slice_multi" /\ result.kind = "Ok" /\ Len(result.val) = 2

---------------------------------------------------------------------------
(* The bytes the writers produce.                                          *)

\* 0x20..=0x7E
Printable == 32..126

AllIn(w, S) == \A i \in DOMAIN w : w[i] \in S

\* C30: the bytes written by write, write_multi and write_mach are printable
\* ASCII, and those written by write_hum are printable ASCII or line feeds.
WriterOutputPrintable ==
    /\ pc \in {"to_bytes", "to_bytes_multi", "to_bytes_mach"} => AllIn(buffer, Printable)
    /\ pc = "to_bytes_hum" => AllIn(buffer, Printable \cup {LF})

\* the wide list was written by write_hum on two lines, its second atom,
\* NUL and bytes of value 255, as decimal escapes
WriterOutputPrintableWitness ==
    /\ pc = "to_bytes_hum"
    /\ sexp = PrintWide
    /\ \E i \in DOMAIN buffer : buffer[i] = LF
    /\ Len(buffer) > 2 + 45 + 2 + 4 * 23

=============================================================================
